---------------------------- MODULE Spec2Model ----------------------------
(***************************************************************************)
(* A model of the BuildingData backend (src/backend/data_processors.py and *)
(* src/backend/main.py): OSM element reconstruction, the building          *)
(* classifier, the height estimator, the feature builder and the merger.   *)
(*                                                                         *)
(* Representation.                                                         *)
(*  - A Python value is a record tagged by its type: None, a str (a        *)
(*    sequence of one-character strings), a float (a fixed-point integer   *)
(*    in units of 1/SCALE), an int, a bool.                                *)
(*  - float arithmetic is exact fixed-point arithmetic: binary rounding of *)
(*    IEEE doubles is not modelled (the spec states 50ft as 15.24 +-0.01). *)
(*  - The alphabet of tag strings has no letters that spell inf, nan or an *)
(*    exponent, so float(s) is decided by sign, digits and one point.      *)
(***************************************************************************)
EXTENDS Integers, Sequences, FiniteSets, TLC

\* fixed-point unit of a modelled float: 2 decimal places (TLC's integers are
\* 32-bit, and areas are multiplied by level counts)
SCALE == 10 * 10

(***************************************************************************)
(* Python values                                                           *)
(***************************************************************************)
PyNone == [t |-> "None"]
PyStr(s) == [t |-> "str", s |-> s]
PyFloat(v) == [t |-> "float", v |-> v]
PyInt(v) == [t |-> "int", v |-> v]
PyBool(b) == [t |-> "bool", b |-> b]

IsNum(x) == x.t \in {"float", "int"}

\* bool(x): None, "", 0 and 0.0 and False are falsy
Truthy(x) ==
    CASE x.t = "None" -> FALSE
      [] x.t = "str" -> x.s # <<>>
      [] x.t = "float" -> x.v # 0
      [] x.t = "int" -> x.v # 0
      [] x.t = "bool" -> x.b
      [] OTHER -> TRUE

\* a str literal of the source, as a character sequence
S_yes == <<"y", "e", "s">>
S_commercial == <<"c", "o", "m", "m", "e", "r", "c", "i", "a", "l">>
S_public == <<"p", "u", "b", "l", "i", "c">>
S_other == <<"o", "t", "h", "e", "r">>
S_residential == <<"r", "e", "s", "i", "d", "e", "n", "t", "i", "a", "l">>
S_industrial == <<"i", "n", "d", "u", "s", "t", "r", "i", "a", "l">>
S_large_building == <<"l", "a", "r", "g", "e", "_", "b", "u", "i", "l", "d", "i", "n", "g">>
S_flat == <<"f", "l", "a", "t">>
S_shed == <<"s", "h", "e", "d">>
S_skillion == <<"s", "k", "i", "l", "l", "i", "o", "n">>
S_multipolygon == <<"m", "u", "l", "t", "i", "p", "o", "l", "y", "g", "o", "n">>

(***************************************************************************)
(* str methods                                                             *)
(***************************************************************************)
DigitChars == {"0", "1", "2", "3", "4", "5", "6", "7", "8", "9"}

DigitVal(c) ==
    CASE c = "0" -> 0 [] c = "1" -> 1 [] c = "2" -> 2 [] c = "3" -> 3
      [] c = "4" -> 4 [] c = "5" -> 5 [] c = "6" -> 6 [] c = "7" -> 7
      [] c = "8" -> 8 [] c = "9" -> 9

\* str.lower() on the modelled alphabet
LowerChar(c) ==
    CASE c = "M" -> "m" [] c = "F" -> "f" [] c = "T" -> "t" [] c = "S" -> "s"
      [] c = "H" -> "h" [] c = "E" -> "e" [] c = "D" -> "d" [] c = "L" -> "l"
      [] c = "A" -> "a" [] c = "I" -> "i" [] c = "N" -> "n" [] c = "R" -> "r"
      [] c = "O" -> "o" [] c = "U" -> "u" [] OTHER -> c

Lower(s) == [i \in 1..Len(s) |-> LowerChar(s[i])]

RECURSIVE LStrip(_)
LStrip(s) == IF s # <<>> /\ Head(s) = " " THEN LStrip(Tail(s)) ELSE s

RECURSIVE RStrip(_)
RStrip(s) ==
    IF s # <<>> /\ s[Len(s)] = " " THEN RStrip(SubSeq(s, 1, Len(s) - 1)) ELSE s

\* str.strip()
Strip(s) == RStrip(LStrip(s))

\* s.endswith(suffix)
EndsWith(s, suf) ==
    Len(s) >= Len(suf) /\ SubSeq(s, Len(s) - Len(suf) + 1, Len(s)) = suf

\* s[:-n]
DropLast(s, n) == IF Len(s) <= n THEN <<>> ELSE SubSeq(s, 1, Len(s) - n)

\* str.isdigit(): non-empty and every character a digit
IsDigitStr(s) == s # <<>> /\ \A i \in 1..Len(s) : s[i] \in DigitChars

RECURSIVE DigitsToInt(_)
DigitsToInt(s) ==
    IF s = <<>> THEN 0
    ELSE 10 * DigitsToInt(SubSeq(s, 1, Len(s) - 1)) + DigitVal(s[Len(s)])

\* index of the first occurrence of character c in s, 0 when there is none
FirstIndex(s, c) ==
    IF \E i \in 1..Len(s) : s[i] = c
    THEN CHOOSE i \in 1..Len(s) : s[i] = c /\ \A j \in 1..(i - 1) : s[j] # c
    ELSE 0

Pow10(n) == CASE n = 0 -> 1 [] n = 1 -> 10 [] OTHER -> 100

(***************************************************************************)
(* float(s) for a str s: surrounding whitespace is ignored, then an        *)
(* optional sign, then digits with at most one point and at least one      *)
(* digit.  The result is [ok, v]: ok = FALSE stands for ValueError.  v     *)
(* keeps two decimals (the modelled tag values have no more).              *)
(***************************************************************************)
FloatOfUnsigned(u) ==
    LET p == FirstIndex(u, ".")
        ip == IF p = 0 THEN u ELSE SubSeq(u, 1, p - 1)
        fp == IF p = 0 THEN <<>> ELSE SubSeq(u, p + 1, Len(u))
        f2 == IF Len(fp) > 2 THEN SubSeq(fp, 1, 2) ELSE fp
        digitsOnly(x) == \A i \in 1..Len(x) : x[i] \in DigitChars
    IN  IF /\ digitsOnly(ip)
           /\ digitsOnly(fp)
           /\ Len(ip) + Len(fp) >= 1
        THEN [ok |-> TRUE,
              v |-> DigitsToInt(ip) * SCALE + DigitsToInt(f2) * Pow10(2 - Len(f2))]
        ELSE [ok |-> FALSE, v |-> 0]

FloatOfStr(s) ==
    LET b == Strip(s)
        neg == b # <<>> /\ Head(b) = "-"
        signed == b # <<>> /\ Head(b) \in {"-", "+"}
        r == FloatOfUnsigned(IF signed THEN Tail(b) ELSE b)
    IN  IF r.ok THEN [ok |-> TRUE, v |-> IF neg THEN 0 - r.v ELSE r.v] ELSE r

\* float(x) for a Python value x: TypeError for None, ValueError for a bad str
FloatOf(x) ==
    CASE x.t = "str" -> FloatOfStr(x.s)
      [] x.t = "float" -> [ok |-> TRUE, v |-> x.v]
      [] x.t = "int" -> [ok |-> TRUE, v |-> x.v * SCALE]
      [] OTHER -> [ok |-> FALSE, v |-> 0]

\* int(x) of a float: truncation toward zero, in whole units
TruncDiv(a, b) == IF a >= 0 THEN a \div b ELSE 0 - ((0 - a) \div b)

Max(a, b) == IF a >= b THEN a ELSE b

(***************************************************************************)
(* OSMProcessor._parse_numeric, _parse_height, _parse_year                 *)
(***************************************************************************)
ParseNumeric(value) ==
    IF value.t = "None" THEN PyNone
    ELSE LET r == FloatOf(value)
         IN  IF r.ok THEN PyFloat(r.v) ELSE PyNone

\* feet to metres: 0.3048 = FT_NUM / FT_DEN
FT_NUM == 3048
FT_DEN == 10000

ParseHeight(height_str) ==
    IF ~Truthy(height_str) THEN PyNone
    ELSE LET h == Strip(Lower(height_str.s))
         IN  IF EndsWith(h, <<"m">>)
             THEN LET r == FloatOfStr(DropLast(h, 1))
                  IN  IF r.ok THEN PyFloat(r.v) ELSE PyNone
             ELSE IF EndsWith(h, <<"f", "t">>)
             THEN LET r == FloatOfStr(DropLast(h, 2))
                  IN  IF r.ok THEN PyFloat((r.v * FT_NUM) \div FT_DEN) ELSE PyNone
             ELSE LET r == FloatOfStr(h)
                  IN  IF r.ok THEN PyFloat(r.v) ELSE PyNone

YEAR_MIN == 1800
YEAR_MAX == 2030

ParseYear(year_str) ==
    IF ~Truthy(year_str) THEN PyNone
    ELSE LET y == Strip(year_str.s)
             dash == FirstIndex(y, "-")
             part == IF dash = 0 THEN y ELSE SubSeq(y, 1, dash - 1)
         IN  IF IsDigitStr(y) /\ DigitsToInt(y) >= YEAR_MIN /\ DigitsToInt(y) <= YEAR_MAX
             THEN PyInt(DigitsToInt(y))
             ELSE IF dash # 0 /\ IsDigitStr(part)
                     /\ DigitsToInt(part) >= YEAR_MIN /\ DigitsToInt(part) <= YEAR_MAX
             THEN PyInt(DigitsToInt(part))
             ELSE PyNone

(***************************************************************************)
(* Tag dictionaries.  A tag map gives every modelled key a value; PyNone   *)
(* stands for a key that is absent (dict.get returns None).                *)
(***************************************************************************)
TagKeys ==
    {"building", "type", "shop", "amenity", "tourism", "building:levels",
     "height", "roof:angle", "roof:slope", "roof:shape", "roof:height",
     "year_built"}

NoTags == [k \in TagKeys |-> PyNone]

\* tags.get(k)
TagGet(tags, k) == tags[k]

\* tags.get(k, default)
TagGetDefault(tags, k, default) == IF tags[k] = PyNone THEN default ELSE tags[k]

(***************************************************************************)
(* infer_building_type(tags, footprint_area_m2, building_geom)             *)
(* footprint_area_m2 is a float in units of 1/SCALE square metres.         *)
(***************************************************************************)
\* building_levels of rule 3, as a float
ClassifierLevels(tags) ==
    LET building_levels == ParseNumeric(TagGet(tags, "building:levels"))
        height == ParseHeight(TagGet(tags, "height"))
    IN  IF building_levels # PyNone THEN building_levels.v
        ELSE IF Truthy(height)
             THEN Max(1, TruncDiv(height.v, 3 * SCALE)) * SCALE
             ELSE 1 * SCALE

\* a variant that takes any flat indication, whatever the other roof tags say
IsFlatRoofAnyOf(tags) ==
    LET roof_angle == ParseNumeric(TagGet(tags, "roof:angle"))
        roof_slope == ParseNumeric(TagGet(tags, "roof:slope"))
        roof_type == Lower(TagGetDefault(tags, "roof:shape", PyStr(<<>>)).s)
    IN  \/ roof_angle # PyNone /\ roof_angle.v < 5 * SCALE
        \/ roof_slope # PyNone /\ 10 * roof_slope.v < SCALE
        \/ roof_type \in {S_flat, S_shed, S_skillion}

IsFlatRoof(tags) ==
    LET roof_angle == ParseNumeric(TagGet(tags, "roof:angle"))
        roof_slope == ParseNumeric(TagGet(tags, "roof:slope"))
        roof_type == Lower(TagGetDefault(tags, "roof:shape", PyStr(<<>>)).s)
    IN  IF roof_angle # PyNone THEN roof_angle.v < 5 * SCALE
        ELSE IF roof_slope # PyNone THEN 10 * roof_slope.v < SCALE
        ELSE roof_type \in {S_flat, S_shed, S_skillion}

\* a variant whose middle band excludes a footprint of exactly 1000
GeometryHeuristicsStrict(footprint_area_m2, building_levels, is_flat_roof) ==
    IF footprint_area_m2 < 100 * SCALE /\ building_levels <= 1 * SCALE
    THEN PyStr(S_other)
    ELSE IF /\ 100 * SCALE <= footprint_area_m2
            /\ footprint_area_m2 < 1000 * SCALE
            /\ building_levels <= 5 * SCALE
    THEN PyStr(S_residential)
    ELSE IF footprint_area_m2 > 1000 * SCALE
    THEN IF building_levels > 1 * SCALE THEN PyStr(S_residential)
         ELSE IF is_flat_roof THEN PyStr(S_industrial)
         ELSE PyStr(S_large_building)
    ELSE PyStr(S_other)

GeometryHeuristics(footprint_area_m2, building_levels, is_flat_roof) ==
    IF footprint_area_m2 < 100 * SCALE /\ building_levels <= 1 * SCALE
    THEN PyStr(S_other)
    ELSE IF /\ 100 * SCALE <= footprint_area_m2
            /\ footprint_area_m2 <= 1000 * SCALE
            /\ building_levels <= 5 * SCALE
    THEN PyStr(S_residential)
    ELSE IF footprint_area_m2 > 1000 * SCALE
    THEN IF building_levels > 1 * SCALE THEN PyStr(S_residential)
         ELSE IF is_flat_roof THEN PyStr(S_industrial)
         ELSE PyStr(S_large_building)
    ELSE PyStr(S_other)

InferBuildingType(tags, footprint_area_m2) ==
    LET original_building_type == TagGetDefault(tags, "building", PyStr(S_yes))
    IN  IF original_building_type # PyStr(S_yes) THEN original_building_type
        ELSE IF Truthy(TagGet(tags, "shop")) THEN PyStr(S_commercial)
        ELSE IF Truthy(TagGet(tags, "amenity")) THEN PyStr(S_public)
        ELSE IF Truthy(TagGet(tags, "tourism")) THEN PyStr(S_public)
        ELSE GeometryHeuristics(footprint_area_m2, ClassifierLevels(tags),
                                IsFlatRoof(tags))

(***************************************************************************)
(* Geometry.  A ring is [pts, a]: its coordinate sequence and the signed   *)
(* ellipsoidal area geod.polygon_area_perimeter returns for it (the sign   *)
(* follows the winding), in units of 1/SCALE square metres.  A polygon is  *)
(* [ext, holes]; a geometry is [type, polys].                              *)
(***************************************************************************)
Ring(pts, a) == [pts |-> pts, a |-> a]
Poly(ext, holes) == [ext |-> ext, holes |-> holes]
PolygonGeom(p) == [type |-> "Polygon", polys |-> <<p>>]
MultiPolygonGeom(ps) == [type |-> "MultiPolygon", polys |-> ps]

Abs(x) == IF x < 0 THEN 0 - x ELSE x

RECURSIVE SumAbsAreas(_)
SumAbsAreas(rings) ==
    IF rings = <<>> THEN 0 ELSE Abs(Head(rings).a) + SumAbsAreas(Tail(rings))

\* a variant that keeps the sign of the exterior ring's area
OnePolygonAreaSigned(poly) == Max(poly.ext.a - SumAbsAreas(poly.holes), 0)

\* _one(poly) of calculate_geodesic_area
OnePolygonArea(poly) == Max(Abs(poly.ext.a) - SumAbsAreas(poly.holes), 0)

RECURSIVE SumPolygonAreas(_)
SumPolygonAreas(polys) ==
    IF polys = <<>> THEN 0
    ELSE OnePolygonArea(Head(polys)) + SumPolygonAreas(Tail(polys))

CalculateGeodesicArea(building_geom) ==
    IF building_geom.type = "Polygon" THEN OnePolygonArea(building_geom.polys[1])
    ELSE IF building_geom.type = "MultiPolygon"
    THEN SumPolygonAreas(building_geom.polys)
    ELSE 0

\* n / d rounded to the nearest integer, ties to even (round() of Python), d > 0
RoundDiv(n, d) ==
    LET q == n \div d
        r == n % d
    IN  IF 2 * r < d THEN q
        ELSE IF 2 * r > d THEN q + 1
        ELSE IF q % 2 = 0 THEN q ELSE q + 1

\* round(x, 2) and round(x, 1) of a float x
Round2(v) == RoundDiv(v, SCALE \div 100) * (SCALE \div 100)
Round1(v) == RoundDiv(v, SCALE \div 10) * (SCALE \div 10)

(***************************************************************************)
(* calculate_roof_area_factor(building_geom, properties).  A factor is an  *)
(* integer in units of 1/FSCALE; tan() is tabulated to 4 decimals for the  *)
(* angles the modelled tags and the default give.                          *)
(***************************************************************************)
FSCALE == SCALE * SCALE

Min(a, b) == IF a <= b THEN a ELSE b

\* math.tan(math.radians(deg / SCALE)) * FSCALE
Tan4(deg) ==
    CASE deg = 0 -> 0
      [] deg = 5 -> 9
      [] deg = 10 -> 17
      [] deg = 300 -> 524
      [] deg = 400 -> 699
      [] deg = 500 -> 875
      [] deg = 1250 -> 2217
      [] deg = 3000 -> 5774
      [] deg = 6000 -> 17321
      [] deg = 0 - 1000 -> 0 - 1763
      [] OTHER -> 0

\* the integer square root
RECURSIVE SqrtBetween(_, _, _)
SqrtBetween(lo, hi, x) ==
    IF lo >= hi THEN lo
    ELSE LET mid == (lo + hi + 1) \div 2
         IN  IF mid * mid <= x THEN SqrtBetween(mid, hi, x)
             ELSE SqrtBetween(lo, mid - 1, x)

\* math.sqrt of an area in square metres, as metres * SCALE
SqrtArea(area) == SqrtBetween(0, 5000, area * SCALE)

\* metres in one degree, the scale of the lon/lat coordinates
METERS_PER_DEGREE == 111320

\* roof:angle of 12.5 degrees when no tag gives one
DEFAULT_ROOF_ANGLE == 1250

\* an angle the function works with: whether it is > 0, and its tangent
Angle(pos, tan4) == [pos |-> pos, tan4 |-> tan4]

AngleOfDegrees(deg) == Angle(deg > 0, Tan4(deg))

\* math.degrees(math.atan(roof_height / (building_width / 2))) with
\* building_width = math.sqrt(building_geom.area): the geometry is in lon/lat, so
\* its area is in square degrees and a width of w metres is w / METERS_PER_DEGREE.
\* The tangent of the angle is the quotient itself; a quotient of 2 or more is
\* kept as 2, the factor being capped from 1 on.
AngleOfRoofHeight(roof_height, building_geom) ==
    LET w == SqrtArea(CalculateGeodesicArea(building_geom))
        q == (2 * roof_height * METERS_PER_DEGREE) \div w
    IN  Angle(roof_height > 0,
              IF q >= 2 THEN 2 * FSCALE ELSE IF q <= 0 - 2 THEN 0 - 2 * FSCALE
              ELSE q * FSCALE)

\* roof_angle after the try blocks and the default; PyNone where the source has None
EffectiveRoofAngle(building_geom, properties) ==
    LET ra == FloatOf(properties.roof_angle)
        rs == FloatOf(properties.roof_slope)
        rh == FloatOf(properties.roof_height)
        bl == FloatOf(properties.building_levels)
        has_angle == properties.roof_angle # PyNone /\ ra.ok
        has_slope == properties.roof_slope # PyNone /\ rs.ok
        derived ==
            IF /\ properties.roof_height # PyNone
               /\ properties.building_levels # PyNone
               /\ rh.ok /\ bl.ok /\ bl.v > 0
               /\ SqrtArea(CalculateGeodesicArea(building_geom)) > 0
            THEN AngleOfRoofHeight(rh.v, building_geom) ELSE PyNone
    IN  IF has_angle THEN AngleOfDegrees(ra.v)
        ELSE IF has_slope THEN AngleOfDegrees(rs.v)
        ELSE IF derived # PyNone THEN derived
        ELSE AngleOfDegrees(DEFAULT_ROOF_ANGLE)

CalculateRoofAreaFactor(building_geom, properties) ==
    LET roof_angle == EffectiveRoofAngle(building_geom, properties)
    IN  IF roof_angle # PyNone
        THEN IF roof_angle.pos
             THEN Min(FSCALE + RoundDiv(15 * roof_angle.tan4, 100), (115 * FSCALE) \div 100)
             ELSE FSCALE
        ELSE (105 * FSCALE) \div 100

\* round(area_meters * roof_factor, 2)
RoofArea(area_meters, roof_factor) ==
    area_meters + RoundDiv(area_meters * (roof_factor - FSCALE), FSCALE)

(***************************************************************************)
(* OSMProcessor._create_building_feature(element, building_geom) for a raw *)
(* OSM element [type, id, tags].  The property bag holds the properties    *)
(* the claims read; the remaining keys of the source are tags.get(key)     *)
(* copies like roof:height below.  PyAbsent marks a key the dict lacks.    *)
(***************************************************************************)
PyAbsent == [t |-> "absent"]

\* properties.get(k)
PropGet(properties, k) == IF properties[k] = PyAbsent THEN PyNone ELSE properties[k]

\* f"{element_type}/{element_id}"
OsmId(element_type, element_id) == [etype |-> element_type, id |-> element_id]

\* height and height_estimated
FeatureHeight(tags) ==
    LET actual_height == ParseHeight(TagGet(tags, "height"))
        building_levels == TagGet(tags, "building:levels")
        floors == FloatOf(building_levels)
    IN  IF Truthy(actual_height)
        THEN [height |-> actual_height, height_estimated |-> FALSE]
        ELSE IF Truthy(building_levels)
        THEN IF floors.ok
             THEN [height |-> PyFloat(floors.v * 3), height_estimated |-> TRUE]
             ELSE [height |-> PyNone, height_estimated |-> FALSE]
        ELSE [height |-> PyNone, height_estimated |-> FALSE]

FeatureProperties(element, building_geom) ==
    LET tags == element.tags
        is_multipolygon ==
            element.type = "relation" /\ TagGet(tags, "type") = PyStr(S_multipolygon)
        area_meters == CalculateGeodesicArea(building_geom)
        h == FeatureHeight(tags)
    IN  [osm_id |-> OsmId(element.type, element.id),
         building |-> InferBuildingType(tags, area_meters),
         building_original |-> TagGetDefault(tags, "building", PyStr(S_yes)),
         height |-> h.height,
         height_estimated |-> PyBool(h.height_estimated),
         building_levels |-> TagGet(tags, "building:levels"),
         year_built |-> ParseYear(TagGet(tags, "year_built")),
         roof_height |-> TagGet(tags, "roof:height"),
         roof_angle |-> TagGet(tags, "roof:angle"),
         roof_slope |-> TagGet(tags, "roof:slope"),
         amenity |-> TagGet(tags, "amenity"),
         shop |-> TagGet(tags, "shop"),
         tourism |-> TagGet(tags, "tourism"),
         is_multipolygon |-> PyBool(is_multipolygon),
         relation_id |-> IF is_multipolygon THEN PyInt(element.id) ELSE PyNone,
         data_sources |-> <<"osm">>,
         roof_area_m2 |->
             PyFloat(RoofArea(area_meters,
                 CalculateRoofAreaFactor(building_geom,
                     [roof_angle |-> TagGet(tags, "roof:angle"),
                      roof_slope |-> TagGet(tags, "roof:slope"),
                      roof_height |-> TagGet(tags, "roof:height"),
                      building_levels |-> TagGet(tags, "building:levels")]))),
         footprint_area_m2 |-> PyFloat(Round2(area_meters)),
         estimated_floor_height |-> PyAbsent,
         footprint_area |-> PyAbsent,
         total_floor_area |-> PyAbsent]

CreateBuildingFeature(element, building_geom) ==
    [type |-> "Feature",
     geometry |-> building_geom,
     properties |-> FeatureProperties(element, building_geom)]

(***************************************************************************)
(* The auxiliary processors and DataMerger.                                *)
(***************************************************************************)
\* a variant that writes every record's height onto its feature
EnrichOverwritingHeight(blds, overture) ==
    [i \in 1..Len(blds) |->
        IF \E j \in 1..Len(overture) : overture[j].feature = i
        THEN LET j == CHOOSE j \in 1..Len(overture) : overture[j].feature = i
             IN  [blds[i] EXCEPT !.properties.height = overture[j].height,
                                 !.properties.data_sources =
                                     Append(@, "overture")]
        ELSE blds[i]]

\* OvertureProcessor.enrich_buildings_with_overture: returns buildings
EnrichBuildingsWithOverture(blds, overture) == blds

\* ISTATProcessor.estimate_units_from_istat: returns buildings
EstimateUnitsFromIstat(blds, istat) == blds

\* APEProcessor.enrich_buildings_with_ape: returns buildings
EnrichBuildingsWithApe(blds, ape) == blds

\* the estimated_floor_height assignment of _calculate_additional_metrics
WithFloorHeight(properties) ==
    LET height == PropGet(properties, "height")
        levels == PropGet(properties, "building_levels")
        h == FloatOf(height)
        l == FloatOf(levels)
    IN  IF height # PyNone /\ levels # PyNone /\ h.ok /\ l.ok /\ l.v > 0
        THEN [properties EXCEPT
                 !["estimated_floor_height"] =
                     PyFloat(RoundDiv(10 * h.v, l.v) * (SCALE \div 10))]
        ELSE properties

\* a variant that multiplies by any parsed level count, positive or not
WithFloorAreaAnyLevels(properties, geometry) ==
    LET footprint_area_m2 == CalculateGeodesicArea(geometry)
        floors == PropGet(properties, "building_levels")
        f == FloatOf(floors)
        total == IF floors # PyNone /\ f.ok
                 THEN RoundDiv(footprint_area_m2 * f.v, SCALE * (SCALE \div 100))
                          * (SCALE \div 100)
                 ELSE Round2(footprint_area_m2)
    IN  [properties EXCEPT !["footprint_area"] = PyFloat(Round2(footprint_area_m2)),
                           !["total_floor_area"] = PyFloat(total)]

\* the footprint_area and total_floor_area assignments
WithFloorArea(properties, geometry) ==
    LET footprint_area_m2 == CalculateGeodesicArea(geometry)
        floors == PropGet(properties, "building_levels")
        f == FloatOf(floors)
        total == IF floors # PyNone /\ f.ok /\ f.v > 0
                 THEN RoundDiv(footprint_area_m2 * f.v, SCALE * (SCALE \div 100))
                          * (SCALE \div 100)
                 ELSE Round2(footprint_area_m2)
    IN  [properties EXCEPT !["footprint_area"] = PyFloat(Round2(footprint_area_m2)),
                           !["total_floor_area"] = PyFloat(total)]

\* DataMerger._calculate_additional_metrics
CalculateAdditionalMetrics(blds) ==
    [i \in 1..Len(blds) |->
        [blds[i] EXCEPT !.properties =
            WithFloorArea(WithFloorHeight(blds[i].properties), blds[i].geometry)]]

\* a variant that counts every type present once
TypePresence(blds) ==
    [t \in {blds[i].properties.building : i \in 1..Len(blds)} |-> 1]

\* building_types of _create_metadata: type -> number of buildings of the type
BuildingTypeDistribution(blds) ==
    [t \in {blds[i].properties.building : i \in 1..Len(blds)} |->
        Cardinality({i \in 1..Len(blds) : blds[i].properties.building = t})]

\* data_sources of _create_metadata: list(set) is a list in no stated order
DataSourcesUsed(blds) ==
    UNION {{blds[i].properties.data_sources[j] :
               j \in 1..Len(blds[i].properties.data_sources)} : i \in 1..Len(blds)}

\* DataMerger._create_metadata, less the processing timestamp
CreateMetadata(blds, osm_buildings, overture, istat, ape) ==
    [total_buildings |-> Len(blds),
     data_sources_used |-> DataSourcesUsed(blds),
     building_type_distribution |-> BuildingTypeDistribution(blds),
     source_counts |-> [osm |-> Len(osm_buildings), overture |-> Len(overture),
                        istat |-> Len(istat), ape |-> Len(ape)]]

\* DataMerger.merge_all_data; the enrichers and the metrics pass work on the
\* list in place, so osm_buildings is the enriched list when the metadata is made
MergeAllData(osm_buildings, overture, istat, ape) ==
    LET e1 == EnrichBuildingsWithOverture(osm_buildings, overture)
        e2 == EstimateUnitsFromIstat(e1, istat)
        e3 == EnrichBuildingsWithApe(e2, ape)
        e4 == CalculateAdditionalMetrics(e3)
    IN  [type |-> "FeatureCollection",
         features |-> e4,
         metadata |-> CreateMetadata(e4, e4, overture, istat, ape)]

(***************************************************************************)
(* OSM elements.  A node element is [id, located]: located = FALSE is a    *)
(* node element without its 'lon'/'lat' keys.  A way element is [type,    *)
(* id, nodes, tags]; a relation element is [type, id, tags, members], a    *)
(* member being [type, ref, role].  data is [nodes, ways, relations]: the  *)
(* elements of each type in their order in data['elements'] (every loop    *)
(* of the source filters on one type).                                     *)
(*                                                                         *)
(* Coordinates are (lon, lat) pairs on a grid.  Nodes 1-4 are the corners  *)
(* of a square, nodes 5-7 a triangle inside it; no two modelled segments   *)
(* cross except at a node.                                                 *)
(***************************************************************************)
NodeCoord(n) ==
    CASE n = 1 -> <<0, 0>> [] n = 2 -> <<4, 0>> [] n = 3 -> <<4, 4>>
      [] n = 4 -> <<0, 4>> [] n = 5 -> <<1, 2>> [] n = 6 -> <<2, 3>>
      [] n = 7 -> <<1, 3>> [] OTHER -> <<9, 9>>

RECURSIVE SeqConcat(_)
SeqConcat(ss) == IF ss = <<>> THEN <<>> ELSE Head(ss) \o SeqConcat(Tail(ss))

Reverse(q) == [i \in 1..Len(q) |-> q[Len(q) + 1 - i]]

\* nodes: node id -> [lon, lat]; element['lon'] of an unlocated node raises
NodeMapRaises(d) == \E i \in 1..Len(d.nodes) : ~d.nodes[i].located

NodeMap(d) ==
    [n \in {d.nodes[i].id : i \in 1..Len(d.nodes)} |-> NodeCoord(n)]

\* the coordinates of a way's nodes that are in the node map, in order
RECURSIVE ResolveCoords(_, _)
ResolveCoords(node_ids, node_map) ==
    IF node_ids = <<>> THEN <<>>
    ELSE (IF Head(node_ids) \in DOMAIN node_map
          THEN <<node_map[Head(node_ids)]>> ELSE <<>>)
         \o ResolveCoords(Tail(node_ids), node_map)

\* ways: way id -> coordinates, for the ways with at least 2 coordinates
WayMap(d, node_map) ==
    LET kept == {i \in 1..Len(d.ways) :
                    Len(ResolveCoords(d.ways[i].nodes, node_map)) >= 2}
    IN  [w \in {d.ways[i].id : i \in kept} |->
            LET i == CHOOSE i \in kept :
                        d.ways[i].id = w /\ \A j \in kept : d.ways[j].id = w => j <= i
            IN  ResolveCoords(d.ways[i].nodes, node_map)]

\* ways.get(wid): <<>> stands for None
WayGet(way_map, wid) == IF wid \in DOMAIN way_map THEN way_map[wid] ELSE <<>>

(***************************************************************************)
(* shapely and pyproj on the modelled coordinates                          *)
(***************************************************************************)
\* twice the signed planar area of a closed coordinate sequence
RECURSIVE Shoelace2(_)
Shoelace2(pts) ==
    IF Len(pts) < 2 THEN 0
    ELSE pts[1][1] * pts[2][2] - pts[2][1] * pts[1][2] + Shoelace2(Tail(pts))

\* a grid cell is 25 square metres; Shoelace2 counts half cells
HALF_CELL_AREA == (25 * SCALE) \div 2

\* geod.polygon_area_perimeter(lons, lats)[0]: signed, positive counter-clockwise
GeodSignedArea(pts) == Shoelace2(pts) * HALF_CELL_AREA

Collinear(pts) ==
    \A i, j, k \in 1..Len(pts) :
        (pts[j][1] - pts[i][1]) * (pts[k][2] - pts[i][2])
            = (pts[k][1] - pts[i][1]) * (pts[j][2] - pts[i][2])

\* coordinates as the ring Polygon(coords) holds: closed if they were not
ClosedRing(coords) ==
    IF coords # <<>> /\ coords[1] # coords[Len(coords)]
    THEN Append(coords, coords[1]) ELSE coords

MakeRing(pts) == Ring(pts, GeodSignedArea(pts))

\* orient(p, sign=1.0): exterior counter-clockwise, holes clockwise
OrientCCW(ring) == IF ring.a < 0 THEN MakeRing(Reverse(ring.pts)) ELSE ring
OrientCW(ring) == IF ring.a > 0 THEN MakeRing(Reverse(ring.pts)) ELSE ring
Orient(poly) ==
    Poly(OrientCCW(poly.ext), [i \in 1..Len(poly.holes) |-> OrientCW(poly.holes[i])])

\* Polygon(coords).buffer(0) is valid and not empty: the coordinates span an area
\* (the modelled rings do not cross themselves)
BufferedIsUsable(coords) == Len(coords) >= 3 /\ ~Collinear(coords)

\* the undirected segments of a LineString
Segments(coords) ==
    {{coords[i], coords[i + 1]} : i \in 1..(Len(coords) - 1)}
        \ {{coords[i]} : i \in 1..Len(coords)}

\* the closed rings the modelled linework can contain
CandidateRings ==
    <<<<NodeCoord(1), NodeCoord(2), NodeCoord(3), NodeCoord(4), NodeCoord(1)>>,
      <<NodeCoord(5), NodeCoord(6), NodeCoord(7), NodeCoord(5)>>>>

\* ring a lies inside ring b: the triangle in the square
RingInside(a, b) == a = CandidateRings[2] /\ b = CandidateRings[1]

\* list(polygonize(unary_union(lines))): the bounded faces of the linework, each
\* candidate ring whose segments are all present, with the rings inside it as holes
Polygonize(lines) ==
    LET segs == UNION {Segments(lines[i]) : i \in 1..Len(lines)}
        found == {c \in 1..Len(CandidateRings) : Segments(CandidateRings[c]) \subseteq segs}
        face(c) ==
            Poly(MakeRing(CandidateRings[c]),
                 SeqConcat([d \in 1..Len(CandidateRings) |->
                     IF d \in found /\ RingInside(CandidateRings[d], CandidateRings[c])
                     THEN <<MakeRing(CandidateRings[d])>> ELSE <<>>]))
    IN  SeqConcat([c \in 1..Len(CandidateRings) |->
                      IF c \in found THEN <<face(c)>> ELSE <<>>])

(***************************************************************************)
(* OSMProcessor._process_multipolygon_relation(relation, ways, nodes)      *)
(***************************************************************************)
\* (m.get('role') or '').strip().lower()
MemberRole(m) == Strip(Lower(m.role))

\* a variant that takes members of any type
RECURSIVE RefsOfAnyType(_, _)
RefsOfAnyType(members, inner) ==
    IF members = <<>> THEN <<>>
    ELSE LET m == Head(members)
         IN  (IF (MemberRole(m) = <<"i", "n", "n", "e", "r">>) = inner
              THEN <<m.ref>> ELSE <<>>)
             \o RefsOfAnyType(Tail(members), inner)

\* outer_ids (inner = FALSE) and inner_ids (inner = TRUE)
RECURSIVE RefsByRole(_, _)
RefsByRole(members, inner) ==
    IF members = <<>> THEN <<>>
    ELSE LET m == Head(members)
         IN  (IF m.type = "way" /\ ((MemberRole(m) = <<"i", "n", "n", "e", "r">>) = inner)
              THEN <<m.ref>> ELSE <<>>)
             \o RefsByRole(Tail(members), inner)

OuterIds(relation) == RefsByRole(relation.members, FALSE)
InnerIds(relation) == RefsByRole(relation.members, TRUE)

\* _polygonize_from_way_ids(ids)
PolygonizeFromWayIds(ids, way_map) ==
    LET lines == SeqConcat([i \in 1..Len(ids) |->
                     IF Len(WayGet(way_map, ids[i])) < 2 THEN <<>>
                     ELSE <<WayGet(way_map, ids[i])>>])
        polys == IF lines = <<>> THEN <<>> ELSE Polygonize(lines)
    IN  [i \in 1..Len(polys) |-> Orient(polys[i])]

\* a variant that accepts every closed outer way, valid or not
AnyClosedOuterWays(outer_ids, way_map) ==
    SeqConcat([i \in 1..Len(outer_ids) |->
        LET coords == WayGet(way_map, outer_ids[i])
        IN  IF Len(coords) >= 4 /\ coords[1] = coords[Len(coords)]
            THEN <<Orient(Poly(MakeRing(coords), <<>>))>> ELSE <<>>])

\* the fallback: every outer way that is itself a closed, usable ring
ClosedOuterWays(outer_ids, way_map) ==
    SeqConcat([i \in 1..Len(outer_ids) |->
        LET coords == WayGet(way_map, outer_ids[i])
        IN  IF /\ Len(coords) >= 4
               /\ coords[1] = coords[Len(coords)]
               /\ BufferedIsUsable(coords)
            THEN <<Orient(Poly(MakeRing(coords), <<>>))>> ELSE <<>>])

OuterPolys(relation, way_map) ==
    LET found == PolygonizeFromWayIds(OuterIds(relation), way_map)
    IN  IF found # <<>> THEN found ELSE ClosedOuterWays(OuterIds(relation), way_map)

InnerPolys(relation, way_map) == PolygonizeFromWayIds(InnerIds(relation), way_map)

\* an outer that a later covering outer replaces: the last covering outer
LastCoveringOuter(n_outer, cov, j) ==
    IF \E i \in 1..n_outer : cov[i][j]
    THEN CHOOSE i \in 1..n_outer : cov[i][j] /\ \A k \in 1..n_outer : cov[k][j] => k <= i
    ELSE 0

\* next((i for i, op in enumerate(outer_polys) if op.contains(pt) or
\* op.covers(pt)), None); 0 stands for None.  cov[i][j] is GEOS's answer for
\* outer i and the representative point of inner j.
FirstCoveringOuter(n_outer, cov, j) ==
    IF \E i \in 1..n_outer : cov[i][j]
    THEN CHOOSE i \in 1..n_outer : cov[i][j] /\ \A k \in 1..n_outer : cov[k][j] => i <= k
    ELSE 0

\* holes_for_outer[i]
HolesForOuter(i, outers, inners, cov) ==
    SeqConcat([j \in 1..Len(inners) |->
        IF FirstCoveringOuter(Len(outers), cov, j) = i THEN <<inners[j]>> ELSE <<>>])

\* the set of coordinates of a ring
RingPoints(ring) == {ring.pts[i] : i \in 1..Len(ring.pts)}

\* final_geoms: Polygon(outer exterior, hole exteriors).buffer(0), oriented; the
\* buffered polygon is empty when a hole takes the whole exterior away
FinalGeoms(outers, inners, cov) ==
    SeqConcat([i \in 1..Len(outers) |->
        LET hs == HolesForOuter(i, outers, inners, cov)
            poly == Poly(outers[i].ext, [h \in 1..Len(hs) |-> hs[h].ext])
        IN  IF \E h \in 1..Len(hs) : RingPoints(hs[h].ext) = RingPoints(outers[i].ext)
            THEN <<>> ELSE <<Orient(poly)>>])

ProcessMultipolygonRelation(relation, way_map, cov) ==
    LET outers == OuterPolys(relation, way_map)
        inners == InnerPolys(relation, way_map)
        final == FinalGeoms(outers, inners, cov)
    IN  IF outers = <<>> THEN <<>>
        ELSE [i \in 1..Len(final) |->
                 CreateBuildingFeature(relation, PolygonGeom(final[i]))]

(***************************************************************************)
(* OSMProcessor._manual_process_data(data)                                 *)
(***************************************************************************)
\* a variant that asks for the multipolygon type
IsTypedMultipolygon(relation) ==
    /\ Truthy(TagGet(relation.tags, "building"))
    /\ TagGet(relation.tags, "type") = PyStr(S_multipolygon)

\* the relation is treated as a multipolygon building
IsMultipolygonBuilding(relation) ==
    /\ Truthy(TagGet(relation.tags, "building"))
    /\ \/ TagGet(relation.tags, "type") = PyStr(S_multipolygon)
       \/ Len(relation.members) > 1

\* a variant that never finds the way
WayNeverInRelations(way_id, relations, processed) == FALSE

\* _is_way_in_processed_relations(way_id, elements, processed_relations)
IsWayInProcessedRelations(way_id, relations, processed) ==
    \E i \in 1..Len(relations) :
        /\ relations[i].id \in processed
        /\ \E m \in 1..Len(relations[i].members) :
              /\ relations[i].members[m].type = "way"
              /\ relations[i].members[m].ref = way_id

\* a variant that accepts any 4 coordinates
AnyFourCoords(coords) == Len(coords) >= 4

\* len(coords) >= 4 and coords[0] == coords[-1]
IsClosedRing(coords) == Len(coords) >= 4 /\ coords[1] = coords[Len(coords)]

\* the features of the relation loop, and the relations it records
RelationFeatures(d, way_map, cov) ==
    SeqConcat([i \in 1..Len(d.relations) |->
        IF IsMultipolygonBuilding(d.relations[i])
        THEN ProcessMultipolygonRelation(d.relations[i], way_map, cov[i])
        ELSE <<>>])

\* a variant that records a relation only when it lists an outer way
ProcessedWithOuterWays(d) ==
    {d.relations[i].id : i \in {k \in 1..Len(d.relations) :
                                   /\ IsMultipolygonBuilding(d.relations[k])
                                   /\ OuterIds(d.relations[k]) # <<>>}}

ProcessedRelations(d) ==
    {d.relations[i].id : i \in {k \in 1..Len(d.relations) :
                                   IsMultipolygonBuilding(d.relations[k])}}

\* the features of the way loop
WayFeatures(d, way_map, processed) ==
    SeqConcat([i \in 1..Len(d.ways) |->
        LET e == d.ways[i]
            coords == WayGet(way_map, e.id)
        IN  IF /\ Truthy(TagGet(e.tags, "building"))
               /\ ~IsWayInProcessedRelations(e.id, d.relations, processed)
               /\ IsClosedRing(coords)
               /\ BufferedIsUsable(coords)
            THEN <<CreateBuildingFeature(
                       e, PolygonGeom(Poly(MakeRing(ClosedRing(coords)), <<>>)))>>
            ELSE <<>>])

(***************************************************************************)
(* State                                                                   *)
(***************************************************************************)
VARIABLES
    element,        \* the raw OSM element handed to _create_building_feature
    geom,           \* the geometry handed to _create_building_feature
    buildings,      \* the feature list: process_data's result, merge's input
    overture_data,  \* the Overture records of the latest merge
    before,         \* the feature list as it was when the latest merge began
    result,         \* the latest result of merge_all_data, PyNone before it
    merges,         \* number of merge_all_data calls so far
    data,           \* the element set handed to process_data
    pc,             \* the position of _manual_process_data
    nodes,          \* node id -> coordinates
    ways,           \* way id -> resolved coordinates
    processed_relations,  \* ids of the relations handled as multipolygons
    covers,         \* GEOS's contains/covers answers, per relation
    outcomes,       \* what each Overpass server does when it is contacted
    server,         \* the index of fetch_buildings' server loop
    contacted,      \* the servers contacted so far, in order
    progress_store, \* main.progress_store: task id -> entry
    tasks,          \* the background tasks: task id -> position and locals
    call            \* the update_progress call of the latest step, None when
                    \* the step made none

featVars == <<element, geom, overture_data, before, result, merges>>
osmVars == <<data, pc, nodes, ways, processed_relations, covers>>
fetchVars == <<outcomes, server, contacted>>
progVars == <<progress_store, tasks, call>>
vars == <<element, geom, buildings, overture_data, before, result, merges,
          data, pc, nodes, ways, processed_relations, covers,
          outcomes, server, contacted, progress_store, tasks, call>>

\* the value of a variable the specification at hand does not use
Idle == PyNone

(***************************************************************************)
(* Inputs of the feature builder                                           *)
(***************************************************************************)
\* merge_all_data is run at most this many times on one feature list
MaxMerges == 2

Present == PyStr(S_yes)

BuildingTagValues == {PyNone, PyStr(<<"y", "e", "s">>), PyStr(<<"c", "h", "u", "r", "c", "h">>)}
ClassLevelValues == {PyNone, PyStr(<<"1">>), PyStr(<<"2">>), PyStr(<<"5">>), PyStr(<<"6">>), PyStr(<<"x">>)}
ClassHeightValues == {PyNone, PyStr(<<"7">>), PyStr(<<"2">>), PyStr(<<"2", "0", "m">>)}
RoofAngleValues == {PyNone, PyStr(<<"4">>), PyStr(<<"5">>), PyStr(<<"x">>)}
RoofSlopeValues == {PyNone, PyStr(<<"0", ".", "0", "5">>), PyStr(<<"0", ".", "1">>)}
RoofShapeValues == {PyNone, PyStr(<<"f", "l", "a", "t">>), PyStr(<<"S", "h", "e", "d">>), PyStr(<<"s", "k", "i", "l", "l", "i", "o", "n">>), PyStr(<<"g", "a", "b", "l", "e", "d">>)}
HeightTagValues == {PyNone, PyStr(<<"1", "5", "m">>), PyStr(<<"5", "0", "f", "t">>), PyStr(<<"2", "0">>), PyStr(<<" ", "1", "5", " ", "M">>), PyStr(<<"0">>), PyStr(<<"0", "m">>), PyStr(<<"x">>), PyStr(<<"m">>), PyStr(<<"1", ".", "5">>), PyStr(<<"-", "5">>), PyStr(<<"5", "m", "5">>)}
LevelTagValues == {PyNone, PyStr(<<"4">>), PyStr(<<"0">>), PyStr(<<"x">>), PyStr(<<"2", ".", "5">>), PyStr(<<"-", "1">>)}
YearTagValues == {PyNone, PyStr(<<"1", "9", "9", "0">>), PyStr(<<"1", "9", "9", "0", "-", "0", "1", "-", "0", "1">>), PyStr(<<"1", "7", "0", "0">>), PyStr(<<"x">>)}
RawTagValues == {PyNone, PyStr(<<"3">>), PyStr(<<"x">>)}

\* footprints around the classifier's thresholds, in square metres * SCALE
FootprintValues ==
    {50 * SCALE, 100 * SCALE - 1, 100 * SCALE, 1000 * SCALE, 1000 * SCALE + 1,
     2000 * SCALE}

\* tag sets exercising rules 1 and 2 of the classifier
UseTagSets ==
    {[NoTags EXCEPT !["building"] = b, !["shop"] = s, !["amenity"] = a,
                    !["tourism"] = t, !["building:levels"] = l] :
        b \in BuildingTagValues, s \in {PyNone, Present}, a \in {PyNone, Present},
        t \in {PyNone, Present}, l \in {PyNone, PyStr(<<"6">>)}}

\* tag sets exercising rule 3 of the classifier
HeuristicTagSets ==
    {[NoTags EXCEPT !["building"] = Present, !["building:levels"] = l,
                    !["height"] = h, !["roof:angle"] = ra, !["roof:slope"] = rs,
                    !["roof:shape"] = sh] :
        l \in ClassLevelValues, h \in ClassHeightValues, ra \in RoofAngleValues,
        rs \in RoofSlopeValues, sh \in RoofShapeValues}

\* tag sets exercising the numeric properties of the feature builder
PropertyTagSets ==
    {[NoTags EXCEPT !["building"] = Present, !["height"] = h,
                    !["building:levels"] = l, !["year_built"] = y,
                    !["roof:height"] = r, !["roof:angle"] = r, !["roof:slope"] = r] :
        h \in HeightTagValues, l \in LevelTagValues, y \in YearTagValues,
        r \in RawTagValues}

\* tag sets exercising the roof-area factor
RoofTagSets ==
    {[NoTags EXCEPT !["building"] = Present, !["roof:angle"] = ra,
                    !["roof:slope"] = rs, !["roof:height"] = rh,
                    !["building:levels"] = l] :
        ra \in {PyNone, PyStr(<<"3", "0">>), PyStr(<<"6", "0">>),
                PyStr(<<"-", "1", "0">>), PyStr(<<"0">>), PyStr(<<"x">>)},
        rs \in {PyNone, PyStr(<<"0", ".", "1">>), PyStr(<<"x">>)},
        rh \in {PyNone, PyStr(<<"2">>), PyStr(<<"0">>), PyStr(<<"x">>)},
        l \in {PyNone, PyStr(<<"2">>), PyStr(<<"0">>), PyStr(<<"x">>)}}

SquareGeom(area) == PolygonGeom(Poly(Ring(<<>>, area), <<>>))

FeatureInputs ==
    ({[type |-> "way", id |-> 1, tags |-> t] : t \in UseTagSets}
        \X {SquareGeom(a) : a \in {50 * SCALE, 2000 * SCALE}})
    \cup ({[type |-> "way", id |-> 1, tags |-> t] : t \in HeuristicTagSets}
        \X {SquareGeom(a) : a \in FootprintValues})
    \cup ({[type |-> "way", id |-> 1, tags |-> t] : t \in PropertyTagSets}
        \X {SquareGeom(500 * SCALE)})
    \cup ({[type |-> "way", id |-> 1, tags |-> t] : t \in RoofTagSets}
        \X {SquareGeom(100 * SCALE), SquareGeom(500 * SCALE)})

\* Overture height records: none, or one matching the feature and proposing 25 m
OvertureInputs ==
    {<<>>, <<[height |-> PyFloat(25 * SCALE), levels |-> PyNone, feature |-> 1]>>}

(***************************************************************************)
(* The feature builder and the merger as a state machine                   *)
(***************************************************************************)
InitFeature ==
    /\ \E in \in FeatureInputs : element = in[1] /\ geom = in[2]
    /\ buildings = <<>>
    /\ overture_data = <<>>
    /\ before = <<>>
    /\ result = PyNone
    /\ merges = 0
    /\ data = Idle /\ pc = "idle" /\ nodes = Idle /\ ways = Idle
    /\ processed_relations = Idle /\ covers = Idle
    /\ outcomes = Idle /\ server = 0 /\ contacted = <<>>
    /\ progress_store = <<>> /\ tasks = <<>> /\ call = Idle

\* OSMProcessor._create_building_feature on the element and its geometry
CreateFeature ==
    /\ buildings = <<>>
    /\ merges = 0
    /\ buildings' = <<CreateBuildingFeature(element, geom)>>
    /\ UNCHANGED <<element, geom, overture_data, before, result, merges>>
    /\ UNCHANGED osmVars
    /\ UNCHANGED fetchVars
    /\ UNCHANGED progVars

\* DataMerger.merge_all_data on the feature list; the features are updated in
\* place, so the list handed in is the list that comes out
MergeStep ==
    /\ buildings # <<>>
    /\ merges < MaxMerges
    /\ \E ov \in OvertureInputs :
          /\ overture_data' = ov
          /\ result' = MergeAllData(buildings, ov, <<>>, <<>>)
    /\ before' = buildings
    /\ buildings' = result'.features
    /\ merges' = merges + 1
    /\ UNCHANGED <<element, geom>>
    /\ UNCHANGED osmVars
    /\ UNCHANGED fetchVars
    /\ UNCHANGED progVars

NextFeature == CreateFeature \/ MergeStep

SpecFeature == InitFeature /\ [][NextFeature]_vars

(***************************************************************************)
(* Claims about the classifier, the height estimator and the merger        *)
(* (checked under SpecFeature)                                             *)
(***************************************************************************)
Built == buildings # <<>>
Props == buildings[1].properties
InTags == element.tags
Footprint == CalculateGeodesicArea(geom)

\* the level count the classifier's rule 3 is stated with
StatedLevels(tags) ==
    LET lv == ParseNumeric(tags["building:levels"])
        h == ParseHeight(tags["height"])
    IN  IF lv # PyNone THEN lv.v
        ELSE IF h # PyNone THEN Max(1, h.v \div (3 * SCALE)) * SCALE
        ELSE SCALE

\* flatness decided by the first roof tag that parses: angle, slope, shape
FlatByFirstAvailable(tags) ==
    LET ra == ParseNumeric(tags["roof:angle"])
        rs == ParseNumeric(tags["roof:slope"])
        shape == IF tags["roof:shape"] = PyNone THEN <<>>
                 ELSE Lower(tags["roof:shape"].s)
    IN  CASE ra # PyNone -> ra.v < 5 * SCALE
          [] ra = PyNone /\ rs # PyNone -> 10 * rs.v < SCALE
          [] OTHER -> shape \in {S_flat, S_shed, S_skillion}

\* flatness as the disjunction of the three indications
FlatByAnyIndication(tags) ==
    LET ra == ParseNumeric(tags["roof:angle"])
        rs == ParseNumeric(tags["roof:slope"])
        shape == IF tags["roof:shape"] = PyNone THEN <<>>
                 ELSE Lower(tags["roof:shape"].s)
    IN  \/ ra # PyNone /\ ra.v < 5 * SCALE
        \/ rs # PyNone /\ 10 * rs.v < SCALE
        \/ shape \in {S_flat, S_shed, S_skillion}

StatedType(tags, fp) ==
    LET lv == StatedLevels(tags)
        flat == FlatByFirstAvailable(tags)
    IN  IF tags["building"] # PyNone /\ tags["building"] # PyStr(S_yes)
        THEN tags["building"]
        ELSE IF tags["shop"] # PyNone THEN PyStr(S_commercial)
        ELSE IF tags["amenity"] # PyNone THEN PyStr(S_public)
        ELSE IF tags["tourism"] # PyNone THEN PyStr(S_public)
        ELSE IF fp < 100 * SCALE /\ lv <= SCALE THEN PyStr(S_other)
        ELSE IF fp >= 100 * SCALE /\ fp <= 1000 * SCALE /\ lv <= 5 * SCALE
        THEN PyStr(S_residential)
        ELSE IF fp > 1000 * SCALE /\ lv > SCALE THEN PyStr(S_residential)
        ELSE IF fp > 1000 * SCALE /\ lv <= SCALE /\ flat THEN PyStr(S_industrial)
        ELSE IF fp > 1000 * SCALE /\ lv <= SCALE /\ ~flat
        THEN PyStr(S_large_building)
        ELSE PyStr(S_other)

\* C5: the type of every built feature is the one the fixed decision order
\* gives for its tags and footprint (building tag other than yes unchanged;
\* shop, amenity, tourism; then the footprint/levels/flat-roof table).
C5_DecisionOrder == Built => Props.building = StatedType(InTags, Footprint)

\* a large single-level building=yes feature with a flat roof came out industrial,
\* and the rules 1 and 2 were exercised too
C5_Witness ==
    /\ Built
    /\ InTags["building"] = PyStr(S_yes)
    /\ InTags["shop"] = PyNone /\ InTags["amenity"] = PyNone
    /\ InTags["tourism"] = PyNone
    /\ Footprint > 1000 * SCALE
    /\ InTags["height"] = PyStr(<<"2">>)
    /\ InTags["building:levels"] = PyStr(<<"x">>)
    /\ Props.building = PyStr(S_industrial)

\* the case C6 is about: building=yes, no use tag, footprint > 1000, one level
LargeSingleLevel ==
    /\ Built
    /\ InTags["building"] \in {PyNone, PyStr(S_yes)}
    /\ InTags["shop"] = PyNone /\ InTags["amenity"] = PyNone
    /\ InTags["tourism"] = PyNone
    /\ Footprint > 1000 * SCALE
    /\ StatedLevels(InTags) <= SCALE

\* C6 as stated: a large single-level building is industrial exactly when at
\* least one of roof angle < 5, roof slope < 0.10, roof shape flat/shed/skillion
\* holds, whatever the other two roof tags say, and large_building otherwise.
C6_AnyIndication ==
    LargeSingleLevel =>
        Props.building = IF FlatByAnyIndication(InTags) THEN PyStr(S_industrial)
                         ELSE PyStr(S_large_building)

\* C6 amended: flatness is decided by the first roof tag that parses, in the
\* order angle (< 5), slope (< 0.10), shape (flat/shed/skillion); a large
\* single-level building is industrial when that says flat, else large_building.
C6_FirstAvailable ==
    LargeSingleLevel =>
        Props.building = IF FlatByFirstAvailable(InTags) THEN PyStr(S_industrial)
                         ELSE PyStr(S_large_building)

\* a parsed angle of 5 decides against a flat roof-shape tag
C6_Witness ==
    /\ LargeSingleLevel
    /\ InTags["roof:angle"] = PyStr(<<"5">>)
    /\ InTags["roof:shape"] = PyStr(S_flat)
    /\ Props.building = PyStr(S_large_building)

\* C7 as stated: a height tag that parses gives height = the parsed value and
\* height_estimated false; else an available level count gives height =
\* levels * 3 and height_estimated true; else height is null.
C7_HeightEstimation ==
    Built =>
        LET h == ParseHeight(InTags["height"])
            lv == ParseNumeric(InTags["building:levels"])
        IN  IF h # PyNone
            THEN Props.height = h /\ Props.height_estimated = PyBool(FALSE)
            ELSE IF lv # PyNone
            THEN Props.height = PyFloat(3 * lv.v)
                 /\ Props.height_estimated = PyBool(TRUE)
            ELSE Props.height = PyNone

\* the numeric properties and the tags they come from
NumericProps ==
    {<<"height", "height">>, <<"building_levels", "building:levels">>,
     <<"roof_angle", "roof:angle">>, <<"roof_slope", "roof:slope">>,
     <<"roof_height", "roof:height">>}

\* C8 as stated: a numeric property whose tag fails to parse as a number is
\* null in the feature (for height: null or the flagged levels estimate), and
\* a year that fails to parse is null; never the raw string.
C8_UnparsedIsNull ==
    Built =>
        /\ \A pk \in NumericProps :
              (InTags[pk[2]] # PyNone
                  /\ (IF pk[1] = "height" THEN ParseHeight(InTags[pk[2]])
                      ELSE ParseNumeric(InTags[pk[2]])) = PyNone)
              => \/ Props[pk[1]] = PyNone
                 \/ pk[1] = "height" /\ Props.height_estimated = PyBool(TRUE)
        /\ (InTags["year_built"] # PyNone /\ ~IsDigitStr(InTags["year_built"].s))
              => Props.year_built.t \in {"None", "int"}

NonZero(x) == x # PyAbsent /\ x # PyNone /\ ~(IsNum(x) /\ x.v = 0)

ScalarKeys == DOMAIN Props \ {"osm_id", "data_sources"}

\* C3: a merge never changes a property that was present and non-zero on the
\* feature when the merge began (height 20 stays 20 against a proposed 25),
\* and keeps the feature's identifier and the data_sources it had.
C3_NonOverride ==
    merges >= 1 =>
        \A i \in 1..Len(before) :
            /\ \A k \in ScalarKeys :
                  NonZero(before[i].properties[k])
                      => buildings[i].properties[k] = before[i].properties[k]
            /\ buildings[i].properties.osm_id = before[i].properties.osm_id
            /\ SubSeq(buildings[i].properties.data_sources, 1,
                      Len(before[i].properties.data_sources))
                  = before[i].properties.data_sources

\* a feature of height 20 was merged with a record proposing 25
C3_Witness ==
    /\ merges >= 1
    /\ overture_data # <<>>
    /\ overture_data[1].height = PyFloat(25 * SCALE)
    /\ before[1].properties.height = PyFloat(20 * SCALE)
    /\ buildings[1].properties.height = PyFloat(20 * SCALE)

Count(seq, x) == Cardinality({i \in 1..Len(seq) : seq[i] = x})

\* C4 as stated: a feature whose height is null, merged with a matching record
\* proposing 25, ends with height 25 and the tag overture in data_sources
\* exactly once, also after the merge has run twice.
C4_FillIn ==
    (/\ merges >= 1
     /\ overture_data # <<>>
     /\ before[1].properties.height = PyNone)
    => /\ buildings[1].properties.height = PyFloat(25 * SCALE)
       /\ Count(buildings[1].properties.data_sources, "overture") = 1

(***************************************************************************)
(* Inputs of process_data                                                  *)
(***************************************************************************)
\* a relation has at most this many members
MaxMembers == 3

BuildingYes == [NoTags EXCEPT !["building"] = Present]

\* node sequences of ways: the square, an open path, a closed way of 3
\* coordinates, a closed way without area, two halves of the square, the triangle
SQ == <<1, 2, 3, 4, 1>>
OPEN == <<1, 2, 3, 4>>
SHORT == <<1, 2, 1>>
FLATRING == <<1, 2, 1, 2, 1>>
HALF1 == <<1, 2, 3>>
HALF2 == <<3, 4, 1>>
TRI == <<5, 6, 7, 5>>

WayShapes == {SQ, OPEN, SHORT, FLATRING, HALF1, HALF2, TRI}

WayElement(id, shape, tags) == [type |-> "way", id |-> id, nodes |-> shape, tags |-> tags]

RelationElement(id, tags, members) ==
    [type |-> "relation", id |-> id, tags |-> tags, members |-> members]

Member(type, ref, role) == [type |-> type, ref |-> ref, role |-> role]

Located(ids) == [i \in 1..Len(ids) |-> [type |-> "node", id |-> ids[i], located |-> TRUE]]

\* all nodes; node 2 missing
NodeLists ==
    {Located(<<1, 2, 3, 4, 5, 6, 7>>),
     Located(<<1, 3, 4, 5, 6, 7>>)}

\* all nodes and one node element without coordinates
UnlocatedNodeList ==
    Located(<<1, 2, 3, 4, 5, 6, 7>>) \o <<[type |-> "node", id |-> 8, located |-> FALSE]>>

\* members: way 1 as outer, inner or without a role (a missing role and an
\* empty one are both ''); way 2 as inner in two spellings or with another
\* role; a node
MemberValues ==
    {Member("way", 1, r) : r \in {<<"o", "u", "t", "e", "r">>, <<"i", "n", "n", "e", "r">>, <<>>}}
        \cup {Member("way", 2, r) :
                 r \in {<<"i", "n", "n", "e", "r">>, <<" ", "I", "n", "n", "e", "r">>,
                        <<"p", "a", "r", "t">>}}
        \cup {Member("node", 1, <<>>)}

RECURSIVE SeqsUpTo(_, _)
SeqsUpTo(S, n) ==
    IF n = 0 THEN {<<>>}
    ELSE SeqsUpTo(S, n - 1)
         \cup {Append(q, x) : q \in {r \in SeqsUpTo(S, n - 1) : Len(r) = n - 1}, x \in S}

RelationTagSets ==
    {[NoTags EXCEPT !["building"] = b, !["type"] = t] :
        b \in {PyNone, Present}, t \in {PyNone, PyStr(S_multipolygon)}}

\* element sets about the ways: every shape, every node list, a few relations
WayFocusedInputs ==
    {[nodes |-> ns,
      ways |-> <<WayElement(1, s1, t1), WayElement(2, s2, t2)>>,
      relations |-> rs] :
        ns \in NodeLists, s1 \in WayShapes, s2 \in WayShapes,
        t1 \in {NoTags, BuildingYes}, t2 \in {NoTags, BuildingYes},
        rs \in {<<>>}
              \cup {<<RelationElement(1, rt, ms)>> :
                      rt \in RelationTagSets,
                      ms \in {<<Member("way", 1, <<"o", "u", "t", "e", "r">>)>>,
                              <<Member("way", 1, <<"o", "u", "t", "e", "r">>),
                                Member("way", 2, <<"i", "n", "n", "e", "r">>)>>}}}

\* element sets about one relation: every member list, a few way shapes
RelationFocusedInputs ==
    {[nodes |-> Located(<<1, 2, 3, 4, 5, 6, 7>>),
      ways |-> <<WayElement(1, s1, t1), WayElement(2, s2, NoTags)>>,
      relations |-> <<RelationElement(1, rt, ms)>>] :
        s1 \in {SQ, HALF1, OPEN}, s2 \in {TRI, HALF2},
        t1 \in {BuildingYes},
        rt \in {BuildingYes, [BuildingYes EXCEPT !["type"] = PyStr(S_multipolygon)]},
        ms \in SeqsUpTo(MemberValues, MaxMembers)}

\* element sets with a node element that has no coordinates
UnlocatedInputs ==
    {[nodes |-> UnlocatedNodeList,
      ways |-> <<WayElement(1, s1, BuildingYes), WayElement(2, s2, BuildingYes)>>,
      relations |-> rs] :
        s1 \in {SQ, OPEN}, s2 \in {SQ, TRI},
        rs \in {<<>>,
                <<RelationElement(1, BuildingYes,
                                  <<Member("way", 1, <<"o", "u", "t", "e", "r">>),
                                    Member("way", 2, <<"i", "n", "n", "e", "r">>)>>)>>}}

OsmInputs == WayFocusedInputs \cup RelationFocusedInputs \cup UnlocatedInputs

\* GEOS's answers for one relation: an answer for each outer polygon and each
\* inner polygon's representative point (a point on a shared boundary is covered
\* by more than one outer), none for a relation that is not processed
CoverAnswers(relation, way_map) ==
    IF IsMultipolygonBuilding(relation)
    THEN [1..Len(OuterPolys(relation, way_map)) ->
             [1..Len(InnerPolys(relation, way_map)) -> BOOLEAN]]
    ELSE {<<>>}

RECURSIVE CoverChoices(_, _)
CoverChoices(relations, way_map) ==
    IF relations = <<>> THEN {<<>>}
    ELSE {<<c>> \o rest : c \in CoverAnswers(Head(relations), way_map),
                          rest \in CoverChoices(Tail(relations), way_map)}

(***************************************************************************)
(* process_data as a state machine: the four loops of                      *)
(* _manual_process_data, then the return                                   *)
(***************************************************************************)
InitOSM ==
    /\ data \in OsmInputs
    /\ pc = "nodes"
    /\ nodes = <<>>
    /\ ways = <<>>
    /\ processed_relations = {}
    /\ covers = <<>>
    /\ buildings = <<>>
    /\ element = Idle /\ geom = Idle /\ overture_data = Idle /\ before = Idle
    /\ result = Idle /\ merges = 0
    /\ outcomes = Idle /\ server = 0 /\ contacted = <<>>
    /\ progress_store = <<>> /\ tasks = <<>> /\ call = Idle

\* the node loop
BuildNodeMap ==
    /\ pc = "nodes"
    /\ ~NodeMapRaises(data)
    /\ nodes' = NodeMap(data)
    /\ pc' = "ways"
    /\ UNCHANGED <<data, ways, processed_relations, covers, buildings>>
    /\ UNCHANGED featVars
    /\ UNCHANGED fetchVars
    /\ UNCHANGED progVars

\* the handler of the outer try: any exception returns the empty list
ProcessingFails ==
    /\ pc = "nodes"
    /\ NodeMapRaises(data)
    /\ buildings' = <<>>
    /\ pc' = "done"
    /\ UNCHANGED <<data, nodes, ways, processed_relations, covers>>
    /\ UNCHANGED featVars
    /\ UNCHANGED fetchVars
    /\ UNCHANGED progVars

\* the way loop that resolves coordinates
BuildWayMap ==
    /\ pc = "ways"
    /\ ways' = WayMap(data, nodes)
    /\ pc' = "relations"
    /\ UNCHANGED <<data, nodes, processed_relations, covers, buildings>>
    /\ UNCHANGED featVars
    /\ UNCHANGED fetchVars
    /\ UNCHANGED progVars

\* the relation loop
ProcessRelations ==
    /\ pc = "relations"
    /\ \E cov \in CoverChoices(data.relations, ways) :
          /\ covers' = cov
          /\ buildings' = buildings \o RelationFeatures(data, ways, cov)
    /\ processed_relations' = ProcessedRelations(data)
    /\ pc' = "emit"
    /\ UNCHANGED <<data, nodes, ways>>
    /\ UNCHANGED featVars
    /\ UNCHANGED fetchVars
    /\ UNCHANGED progVars

\* the way loop that emits the simple-way buildings, and the return
ProcessWays ==
    /\ pc = "emit"
    /\ buildings' = buildings \o WayFeatures(data, ways, processed_relations)
    /\ pc' = "done"
    /\ UNCHANGED <<data, nodes, ways, processed_relations, covers>>
    /\ UNCHANGED featVars
    /\ UNCHANGED fetchVars
    /\ UNCHANGED progVars

NextOSM ==
    \/ BuildNodeMap
    \/ ProcessingFails
    \/ BuildWayMap
    \/ ProcessRelations
    \/ ProcessWays

SpecOSM == InitOSM /\ [][NextOSM]_vars

(***************************************************************************)
(* Claims about process_data (checked under SpecOSM)                       *)
(***************************************************************************)
Done == pc = "done"

\* the output holds a feature with this osm_id
Emitted(etype, id) ==
    \E k \in 1..Len(buildings) : buildings[k].properties.osm_id = OsmId(etype, id)

\* the ways a relation lists as members
MemberWays(relation) ==
    {relation.members[m].ref :
        m \in {n \in 1..Len(relation.members) : relation.members[n].type = "way"}}

\* the relations that were processed as multipolygons and gave a feature
SuccessfulRelations ==
    {i \in 1..Len(data.relations) :
        /\ data.relations[i].id \in processed_relations
        /\ Emitted("relation", data.relations[i].id)}

\* C1: the output never holds a feature way/<w> for a way w that is a member
\* of a successfully processed multipolygon relation.
C1_MemberWayNotEmitted ==
    pc \in {"emit", "done"} =>
        \A i \in SuccessfulRelations :
            \A w \in MemberWays(data.relations[i]) : ~Emitted("way", w)

\* a relation was built from a building-tagged closed way that would have been
\* a building by itself, and the way loop has run
C1_Witness ==
    /\ Done
    /\ \E i \in SuccessfulRelations :
          \E k \in 1..Len(data.ways) :
              /\ data.ways[k].id \in MemberWays(data.relations[i])
              /\ Truthy(TagGet(data.ways[k].tags, "building"))
              /\ data.ways[k].id \in DOMAIN ways
              /\ Len(ways[data.ways[k].id]) >= 4
              /\ ways[data.ways[k].id][1] = ways[data.ways[k].id][Len(ways[data.ways[k].id])]
              /\ ~Collinear(ways[data.ways[k].id])
              /\ ~Emitted("way", data.ways[k].id)

\* the coordinates of a way read from the node elements that carry coordinates
OwnCoords(way) ==
    ResolveCoords(way.nodes,
        [n \in {data.nodes[i].id : i \in {k \in 1..Len(data.nodes) : data.nodes[k].located}}
            |-> NodeCoord(n)])

\* a building-tagged way that is a closed ring with an area and belongs to no
\* relation: a building reconstructable on its own
ReconstructableWays ==
    {k \in 1..Len(data.ways) :
        /\ Truthy(TagGet(data.ways[k].tags, "building"))
        /\ Len(OwnCoords(data.ways[k])) >= 4
        /\ OwnCoords(data.ways[k])[1] = OwnCoords(data.ways[k])[Len(OwnCoords(data.ways[k]))]
        /\ ~Collinear(OwnCoords(data.ways[k]))
        /\ \A i \in 1..Len(data.relations) :
              data.ways[k].id \notin MemberWays(data.relations[i])}

\* C2 as stated: a failure confined to one element drops only that building;
\* every building that is reconstructable on its own is in the output of
\* process_data, whatever the other elements are.
C2_OthersSurvive ==
    Done => \A k \in ReconstructableWays : Emitted("way", data.ways[k].id)

\* C9: a building-tagged way is emitted as a simple-way feature only if its
\* resolved coordinates are at least 4 and the first equals the last; the ring
\* of the feature has the points of the resolved coordinates, none added.
C9_ClosedWaysOnly ==
    \A k \in 1..Len(buildings) :
        buildings[k].properties.osm_id.etype = "way" =>
            \E w \in 1..Len(data.ways) :
                LET coords == ResolveCoords(data.ways[w].nodes, nodes)
                IN  /\ data.ways[w].id = buildings[k].properties.osm_id.id
                    /\ Truthy(TagGet(data.ways[w].tags, "building"))
                    /\ Len(coords) >= 4
                    /\ coords[1] = coords[Len(coords)]
                    /\ RingPoints(buildings[k].geometry.polys[1].ext)
                          = {coords[n] : n \in 1..Len(coords)}

\* a closed way was emitted while a building-tagged open way of 4 coordinates,
\* member of no relation, was dropped
C9_Witness ==
    /\ Done
    /\ \E k \in 1..Len(buildings) : buildings[k].properties.osm_id.etype = "way"
    /\ \E w \in 1..Len(data.ways) :
          LET coords == ResolveCoords(data.ways[w].nodes, nodes)
          IN  /\ Truthy(TagGet(data.ways[w].tags, "building"))
              /\ Len(coords) >= 4
              /\ coords[1] # coords[Len(coords)]
              /\ \A i \in 1..Len(data.relations) :
                    data.ways[w].id \notin MemberWays(data.relations[i])
              /\ ~Emitted("way", data.ways[w].id)

\* the output polygons of relation i, and whether one has the ring as a hole
RelationPolys(i) ==
    {buildings[k].geometry.polys[1] :
        k \in {n \in 1..Len(buildings) :
                  buildings[n].properties.osm_id = OsmId("relation", data.relations[i].id)}}

HasHole(poly, ring) ==
    \E h \in 1..Len(poly.holes) : RingPoints(poly.holes[h]) = RingPoints(ring)

\* the outer polygons that answer yes for inner j of relation i
CoveringOuters(i, j) ==
    {o \in 1..Len(OuterPolys(data.relations[i], ways)) : covers[i][o][j]}

\* C10: in a processed relation every inner polygon is a hole of at most one
\* output polygon, and only of the one built on the first outer polygon (in
\* assembly order) that covers its representative point; an inner polygon no
\* outer covers is a hole of no output polygon.
C10_FirstCoveringOuter ==
    pc \in {"emit", "done"} =>
        \A i \in 1..Len(data.relations) :
            data.relations[i].id \in processed_relations =>
                LET outers == OuterPolys(data.relations[i], ways)
                    inners == InnerPolys(data.relations[i], ways)
                IN  \A j \in 1..Len(inners) :
                        /\ Cardinality({p \in RelationPolys(i) :
                                           HasHole(p, inners[j].ext)}) <= 1
                        /\ \A p \in RelationPolys(i) :
                              HasHole(p, inners[j].ext) =>
                                  \E o \in CoveringOuters(i, j) :
                                      /\ \A o2 \in CoveringOuters(i, j) : o <= o2
                                      /\ RingPoints(p.ext) = RingPoints(outers[o].ext)

\* two outer polygons cover an inner polygon and the first has it as its hole,
\* and another relation's inner polygon that nothing covers is nobody's hole
C10_Witness ==
    /\ Done
    /\ \E i \in 1..Len(data.relations) :
          /\ data.relations[i].id \in processed_relations
          /\ LET outers == OuterPolys(data.relations[i], ways)
                 inners == InnerPolys(data.relations[i], ways)
             IN  \E j \in 1..Len(inners) :
                     /\ Cardinality(CoveringOuters(i, j)) >= 2
                     /\ 1 \in CoveringOuters(i, j)
                     /\ \E p \in RelationPolys(i) :
                           /\ HasHole(p, inners[j].ext)
                           /\ RingPoints(p.ext) = RingPoints(outers[1].ext)

\* the relation loop has run (a run that failed in the node loop never
\* reaches it)
RelationsDone == pc = "emit" \/ (pc = "done" /\ ~NodeMapRaises(data))

\* C18: a relation is recorded as processed exactly when it has a building tag
\* and either type=multipolygon or more than one member; a relation that is
\* not (a building relation of one member and no multipolygon type among them)
\* gives no feature.
C18_MultipolygonCriterion ==
    RelationsDone =>
        \A i \in 1..Len(data.relations) :
            LET r == data.relations[i]
                meets == /\ r.tags["building"] # PyNone
                         /\ \/ r.tags["type"] = PyStr(S_multipolygon)
                            \/ Len(r.members) >= 2
            IN  /\ r.id \in processed_relations <=> meets
                /\ ~meets => ~Emitted("relation", r.id)

\* an untyped building relation of two members was processed and gave a
\* feature
C18_Witness ==
    /\ Done
    /\ \E i \in 1..Len(data.relations) :
          /\ data.relations[i].tags["building"] # PyNone
          /\ data.relations[i].tags["type"] = PyNone
          /\ Len(data.relations[i].members) = 2
          /\ data.relations[i].id \in processed_relations
          /\ Emitted("relation", data.relations[i].id)

\* the roles that read inner
InnerRoles == {<<"i", "n", "n", "e", "r">>, <<" ", "I", "n", "n", "e", "r">>}

\* the references of the way members with (or without) an inner role, in order
WayRefsWhere(members, inner) ==
    LET picked == {n \in 1..Len(members) :
                      members[n].type = "way" /\ ((members[n].role \in InnerRoles) = inner)}
        nth(k) == CHOOSE n \in picked : Cardinality({j \in picked : j <= n}) = k
    IN  [k \in 1..Cardinality(picked) |-> members[nth(k)].ref]

\* C19: in a processed relation the inner list holds the references of the way
\* members whose role is inner, the outer list those of every other way member
\* (outer, empty or missing, any other role); a member that is not a way is in
\* neither list, so each way member is in exactly one.
C19_RolePartition ==
    RelationsDone =>
        \A i \in 1..Len(data.relations) :
            data.relations[i].id \in processed_relations =>
                LET members == data.relations[i].members
                IN  /\ InnerIds(data.relations[i]) = WayRefsWhere(members, TRUE)
                    /\ OuterIds(data.relations[i]) = WayRefsWhere(members, FALSE)
                    /\ Len(InnerIds(data.relations[i])) + Len(OuterIds(data.relations[i]))
                          = Cardinality({n \in 1..Len(members) : members[n].type = "way"})

\* a relation of a node, an outer way and a way with another role was split
\* into two outer references and no inner one
C19_Witness ==
    /\ Done
    /\ \E i \in 1..Len(data.relations) :
          /\ data.relations[i].id \in processed_relations
          /\ data.relations[i].members
                = <<Member("node", 1, <<>>),
                    Member("way", 1, <<"o", "u", "t", "e", "r">>),
                    Member("way", 2, <<"p", "a", "r", "t">>)>>
          /\ OuterIds(data.relations[i]) = <<1, 2>>
          /\ InnerIds(data.relations[i]) = <<>>

\* the outer ways of a relation that are closed rings with an area
ClosedValidOuterWays(relation) ==
    {n \in 1..Len(relation.members) :
        /\ relation.members[n].type = "way"
        /\ relation.members[n].role \notin InnerRoles
        /\ relation.members[n].ref \in DOMAIN ways
        /\ LET coords == ways[relation.members[n].ref]
           IN  /\ Len(coords) >= 4
               /\ coords[1] = coords[Len(coords)]
               /\ ~Collinear(coords)}

CriterionRelations ==
    {i \in 1..Len(data.relations) :
        /\ data.relations[i].tags["building"] # PyNone
        /\ \/ data.relations[i].tags["type"] = PyStr(S_multipolygon)
           \/ Len(data.relations[i].members) >= 2}

\* the building-tagged ways whose resolved coordinates are a closed ring
ClosedBuildingWays ==
    {w \in 1..Len(data.ways) :
        LET coords == ResolveCoords(data.ways[w].nodes, nodes)
        IN  /\ data.ways[w].tags["building"] # PyNone
            /\ Len(coords) >= 4
            /\ coords[1] = coords[Len(coords)]}

\* C21: a relation that meets the criterion is in the processed set whether or
\* not it gave a feature, and a building-tagged closed way that is a way
\* member of such a relation is not in the output, also when the relation
\* gave no feature.
C21_SuppressedByEmptyRelation ==
    /\ RelationsDone =>
          \A i \in CriterionRelations : data.relations[i].id \in processed_relations
    /\ Done /\ ~NodeMapRaises(data) =>
          \A i \in CriterionRelations : \A w \in ClosedBuildingWays :
              data.ways[w].id \in MemberWays(data.relations[i])
                  => ~Emitted("way", data.ways[w].id)

\* a processed relation gave no feature, and its member way, a building-tagged
\* closed ring with an area, is in the output neither as a relation nor as a
\* way: the run returned no feature at all for it
C21_Witness ==
    /\ Done
    /\ \E i \in CriterionRelations : \E w \in ClosedBuildingWays :
          /\ data.relations[i].id \in processed_relations
          /\ ~Emitted("relation", data.relations[i].id)
          /\ data.ways[w].id \in MemberWays(data.relations[i])
          /\ ~Collinear(ResolveCoords(data.ways[w].nodes, nodes))
          /\ ~Emitted("way", data.ways[w].id)

(***************************************************************************)
(* calculate_geodesic_area as a call: the geometry is drawn from rings of  *)
(* either winding, and pyproj either answers or raises.  The function has  *)
(* no handler, so what pyproj raises leaves it.                            *)
(***************************************************************************)
\* a polygon has at most this many holes
MaxHoles == 2

\* signed ring areas, 1/SCALE square metres: both windings of two sizes
RingAreaValues == {30 * SCALE, 0 - 30 * SCALE, 80 * SCALE, 0 - 80 * SCALE}

AreaPolygons ==
    {Poly(Ring(<<>>, e), [i \in 1..Len(hs) |-> Ring(<<>>, hs[i])]) :
        e \in RingAreaValues, hs \in SeqsUpTo(RingAreaValues, MaxHoles)}

AreaInputs ==
    {PolygonGeom(p) : p \in AreaPolygons}
        \cup {MultiPolygonGeom(<<p, q>>) :
                p \in AreaPolygons,
                q \in {Poly(Ring(<<>>, e), <<>>) : e \in RingAreaValues}}
        \cup {[type |-> "LineString", polys |-> <<>>]}

InitArea ==
    /\ geom \in AreaInputs
    /\ pc = "measure"
    /\ result = Idle
    /\ element = Idle /\ buildings = <<>> /\ overture_data = Idle /\ before = Idle
    /\ merges = 0
    /\ data = Idle /\ nodes = Idle /\ ways = Idle
    /\ processed_relations = Idle /\ covers = Idle
    /\ outcomes = Idle /\ server = 0 /\ contacted = <<>>
    /\ progress_store = <<>> /\ tasks = <<>> /\ call = Idle

\* calculate_geodesic_area(geom) returns
AreaReturns ==
    /\ pc = "measure"
    /\ result' = [raised |-> FALSE, value |-> PyFloat(CalculateGeodesicArea(geom))]
    /\ pc' = "measured"
    /\ UNCHANGED <<element, geom, buildings, overture_data, before, merges,
                   data, nodes, ways, processed_relations, covers>>
    /\ UNCHANGED fetchVars
    /\ UNCHANGED progVars

\* geod.polygon_area_perimeter raises inside calculate_geodesic_area
AreaRaises ==
    /\ pc = "measure"
    /\ geom.type \in {"Polygon", "MultiPolygon"}
    /\ result' = [raised |-> TRUE, value |-> PyNone]
    /\ pc' = "measured"
    /\ UNCHANGED <<element, geom, buildings, overture_data, before, merges,
                   data, nodes, ways, processed_relations, covers>>
    /\ UNCHANGED fetchVars
    /\ UNCHANGED progVars

NextArea == AreaReturns \/ AreaRaises

SpecArea == InitArea /\ [][NextArea]_vars

(***************************************************************************)
(* Claims about the area calculation (checked under SpecArea)              *)
(***************************************************************************)
Measured == pc = "measured" /\ ~result.raised

\* the area a polygon is stated to have
StatedPolygonArea(poly) ==
    LET net == Abs(poly.ext.a) - SumAbsAreas(poly.holes)
    IN  IF net < 0 THEN 0 ELSE net

RECURSIVE StatedAreaSum(_)
StatedAreaSum(polys) ==
    IF polys = <<>> THEN 0
    ELSE StatedPolygonArea(Head(polys)) + StatedAreaSum(Tail(polys))

\* ring r of polygon p wound the other way (r = 0 is the exterior)
ReverseRing(ring) == Ring(Reverse(ring.pts), 0 - ring.a)

Rewound(g, p, r) ==
    [g EXCEPT !.polys[p] =
        IF r = 0 THEN [@ EXCEPT !.ext = ReverseRing(@)]
        ELSE [@ EXCEPT !.holes[r] = ReverseRing(@)]]

\* C11: the area of a polygon is |exterior| minus each |hole|, clamped at 0,
\* and of a multi-polygon the sum over its polygons; it is never negative and
\* is the same with any one ring wound the other way.
C11_AreaMagnitudes ==
    (Measured /\ geom.type \in {"Polygon", "MultiPolygon"}) =>
        /\ result.value = PyFloat(StatedAreaSum(geom.polys))
        /\ result.value.v >= 0
        /\ \A p \in 1..Len(geom.polys) :
              \A r \in 0..Len(geom.polys[p].holes) :
                  CalculateGeodesicArea(Rewound(geom, p, r)) = result.value.v

\* a clockwise exterior with a counter-clockwise hole was measured as the
\* difference of the magnitudes
C11_Witness ==
    /\ Measured
    /\ geom.type = "Polygon"
    /\ geom.polys[1].ext.a = 0 - 80 * SCALE
    /\ Len(geom.polys[1].holes) = 1
    /\ geom.polys[1].holes[1].a = 30 * SCALE
    /\ result.value = PyFloat(50 * SCALE)

\* C12 as stated: when the ellipsoidal computation throws, the area calculation
\* still returns a value (the planar approximation); no error reaches the caller.
C12_FailureStaysInside ==
    pc = "measured" => (~result.raised /\ result.value # PyNone)

\* the tangent (* FSCALE) of the roof angle C13 names for the tags: roof:angle,
\* else roof:slope as an angle, else atan(roof height / half of the square root
\* of the footprint) when roof height and a positive level count are known,
\* else 12.5 degrees
StatedRoofTan(tags, fp) ==
    LET ra == ParseNumeric(tags["roof:angle"])
        rs == ParseNumeric(tags["roof:slope"])
        rh == ParseNumeric(tags["roof:height"])
        lv == ParseNumeric(tags["building:levels"])
    IN  IF ra # PyNone THEN Tan4(ra.v)
        ELSE IF rs # PyNone THEN Tan4(rs.v)
        ELSE IF rh # PyNone /\ lv # PyNone /\ lv.v > 0
        THEN (2 * rh.v * FSCALE) \div SqrtArea(fp)
        ELSE Tan4(DEFAULT_ROOF_ANGLE)

StatedRoofFactor(tags, fp) ==
    Min(FSCALE + RoundDiv(15 * StatedRoofTan(tags, fp), 100), (115 * FSCALE) \div 100)

\* C13 as stated: the roof area of every built feature is the footprint times
\* min(1.0 + 0.15 * tan(angle), 1.15) for the angle chosen by the priority
\* roof:angle, roof:slope, angle derived from roof:height, default 12.5 degrees.
C13_RoofFactor ==
    Built =>
        Props.roof_area_m2 = PyFloat(RoofArea(Footprint, StatedRoofFactor(InTags, Footprint)))

Merged == merges >= 1

\* C14: after the merge, estimated_floor_height is height / levels (one
\* decimal) exactly when height and levels are present and levels > 0, and is
\* not set otherwise; total_floor_area is footprint_area * levels when levels
\* is known and > 0 and footprint_area alone otherwise.
C14_DerivedMetrics ==
    Merged =>
        LET lv == ParseNumeric(Props.building_levels)
            known == lv # PyNone /\ lv.v > 0
        IN  /\ Props.footprint_area = PyFloat(Round2(Footprint))
            /\ IF Props.height # PyNone /\ known
               THEN Props.estimated_floor_height
                        = PyFloat(RoundDiv(10 * Props.height.v, lv.v) * (SCALE \div 10))
               ELSE Props.estimated_floor_height = PyAbsent
            /\ IF known
               THEN Props.total_floor_area
                        = PyFloat(RoundDiv(Props.footprint_area.v * lv.v, SCALE))
               ELSE Props.total_floor_area = Props.footprint_area

\* a 15 m building of 4 levels on 500 square metres got 3.8 m per floor and
\* 2000 square metres of floor
C14_Witness ==
    /\ Merged
    /\ Props.height = PyFloat(15 * SCALE)
    /\ Props.building_levels = PyStr(<<"4">>)
    /\ Props.footprint_area = PyFloat(500 * SCALE)
    /\ Props.estimated_floor_height = PyFloat(380)
    /\ Props.total_floor_area = PyFloat(2000 * SCALE)

\* properties.get(k) of a feature, for a key the dict may lack
FieldOf(properties, k) ==
    IF k \in DOMAIN properties THEN PropGet(properties, k) ELSE PyNone

\* the checklist of the completeness score: building type, levels, height,
\* units, energy class, estimated units
Checklist ==
    {"building", "building_levels", "height", "building_units", "energy_class",
     "estimated_units"}

\* the percentage of the checklist that is non-null, to one decimal
StatedCompleteness(properties) ==
    PyFloat(Round1((100 * SCALE
                     * Cardinality({k \in Checklist : FieldOf(properties, k) # PyNone}))
                   \div Cardinality(Checklist)))

\* C15 as stated: every feature of the merged collection carries a
\* data-completeness score, the percentage of the checklist that is non-null
\* on it, between 0 and 100.
C15_CompletenessScore ==
    Merged =>
        \A i \in 1..Len(result.features) :
            LET properties == result.features[i].properties
            IN  /\ "data_completeness" \in DOMAIN properties
                /\ properties["data_completeness"] = StatedCompleteness(properties)

(***************************************************************************)
(* merge_all_data on a list of features and the three auxiliary lists.     *)
(* data holds the auxiliary lists, before the list handed in.              *)
(***************************************************************************)
\* the feature list has at most this many features
MaxFeatures == 3

\* each auxiliary list has at most this many records
MaxRecords == 2

\* features of four types, as the feature builder makes them
MergeFeatures ==
    {CreateBuildingFeature([type |-> "way", id |-> 1, tags |-> t], SquareGeom(a)) :
        t \in {BuildingYes,
               [NoTags EXCEPT !["building"] = PyStr(<<"c", "h", "u", "r", "c", "h">>)],
               [BuildingYes EXCEPT !["shop"] = Present],
               [BuildingYes EXCEPT !["building:levels"] = PyStr(<<"4">>),
                                   !["height"] = PyStr(<<"1", "5", "m">>)]},
        a \in {500 * SCALE}}

\* n records of an auxiliary source
Records(n) == [i \in 1..n |-> [feature |-> i, height |-> PyNone, levels |-> PyNone]]

InitMerge ==
    /\ buildings \in SeqsUpTo(MergeFeatures, MaxFeatures)
    /\ \E o \in 0..MaxRecords, c \in 0..MaxRecords, a \in 0..MaxRecords :
          /\ overture_data = Records(o)
          /\ data = [istat |-> Records(c), ape |-> Records(a)]
    /\ pc = "merge"
    /\ before = <<>>
    /\ result = Idle
    /\ merges = 0
    /\ element = Idle /\ geom = Idle /\ nodes = Idle /\ ways = Idle
    /\ processed_relations = Idle /\ covers = Idle
    /\ outcomes = Idle /\ server = 0 /\ contacted = <<>>
    /\ progress_store = <<>> /\ tasks = <<>> /\ call = Idle

\* DataMerger.merge_all_data(buildings, overture_data, istat_data, ape_data)
MergeAll ==
    /\ pc = "merge"
    /\ result' = MergeAllData(buildings, overture_data, data.istat, data.ape)
    /\ before' = buildings
    /\ buildings' = result'.features
    /\ merges' = merges + 1
    /\ pc' = "merged"
    /\ UNCHANGED <<element, geom, overture_data, data, nodes, ways,
                   processed_relations, covers>>
    /\ UNCHANGED fetchVars
    /\ UNCHANGED progVars

NextMerge == MergeAll

SpecMerge == InitMerge /\ [][NextMerge]_vars

(***************************************************************************)
(* Claims about the metadata (checked under SpecMerge)                     *)
(***************************************************************************)
Features == result.features
Metadata == result.metadata

\* the types the histogram has an entry for
HistogramTypes == DOMAIN Metadata.building_type_distribution

RECURSIVE SumOver(_, _)
SumOver(f, S) ==
    IF S = {} THEN 0
    ELSE LET x == CHOOSE x \in S : TRUE IN f[x] + SumOver(f, S \ {x})

\* C16: in every result total_buildings is the number of features, the
\* histogram gives for each type the number of features of that type (and
\* sums to total_buildings), data_sources_used is the union of the features'
\* data_sources, and source_counts gives the lengths of the four input lists.
C16_MetadataConsistent ==
    pc = "merged" =>
        /\ Metadata.total_buildings = Len(Features)
        /\ \A i \in 1..Len(Features) : Features[i].properties.building \in HistogramTypes
        /\ \A t \in HistogramTypes :
              Metadata.building_type_distribution[t]
                  = Cardinality({i \in 1..Len(Features) :
                                    Features[i].properties.building = t})
        /\ SumOver(Metadata.building_type_distribution, HistogramTypes)
              = Metadata.total_buildings
        /\ \A src \in {"osm", "overture", "istat", "ape"} :
              src \in Metadata.data_sources_used
                  <=> \E i \in 1..Len(Features) :
                         \E j \in 1..Len(Features[i].properties.data_sources) :
                             Features[i].properties.data_sources[j] = src
        /\ Metadata.source_counts
              = [osm |-> Len(before), overture |-> Len(overture_data),
                 istat |-> Len(data.istat), ape |-> Len(data.ape)]

\* three features, two of one type, merged with auxiliary lists of three
\* different lengths
C16_Witness ==
    /\ pc = "merged"
    /\ Len(Features) = 3
    /\ Cardinality(HistogramTypes) = 2
    /\ \E t \in HistogramTypes : Metadata.building_type_distribution[t] = 2
    /\ Metadata.source_counts.overture = 0
    /\ Metadata.source_counts.istat = 1
    /\ Metadata.source_counts.ape = 2

(***************************************************************************)
(* OSMProcessor.process_data(data) as one value, for the callers that use  *)
(* its result                                                              *)
(***************************************************************************)
ProcessData(d, cov) ==
    IF NodeMapRaises(d) THEN <<>>
    ELSE LET way_map == WayMap(d, NodeMap(d))
         IN  RelationFeatures(d, way_map, cov)
                 \o WayFeatures(d, way_map, ProcessedRelations(d))

(***************************************************************************)
(* OSMProcessor.fetch_buildings(bounds): the loop over the Overpass        *)
(* servers.  An outcome is what one server does when contacted: a response *)
(* with status 200 and a body (with buildings, without, or one             *)
(* response.json() cannot parse), a response with status 429 or 500, a     *)
(* timeout, or another exception of the request.                           *)
(***************************************************************************)
\* len(servers)
NumServers == 5

OutcomeKinds == {"ok", "empty", "badjson", "ratelimit", "status500", "timeout", "error"}

\* the request returns a response object
Responds(o) == o \in {"ok", "empty", "badjson", "ratelimit", "status500"}

\* response.status
StatusOf(o) ==
    CASE o \in {"ok", "empty", "badjson"} -> 200
      [] o = "ratelimit" -> 429
      [] OTHER -> 500

\* await response.json() raises
JsonRaises(o) == o = "badjson"

\* the body of server k's response: one closed building way with id k, or no
\* element at all
Payload(k, o) ==
    IF o = "ok"
    THEN [nodes |-> Located(<<1, 2, 3, 4>>),
          ways |-> <<WayElement(k, SQ, BuildingYes)>>,
          relations |-> <<>>]
    ELSE [nodes |-> <<>>, ways |-> <<>>, relations |-> <<>>]

\* a variant that takes the body of any response
AnyStatus(status) == TRUE

\* response.status == 200
StatusIsOk(status) == status = 200

InitFetch ==
    /\ outcomes \in [1..NumServers -> OutcomeKinds]
    /\ server = 1
    /\ contacted = <<>>
    /\ pc = "fetch"
    /\ result = Idle
    /\ buildings = <<>>
    /\ element = Idle /\ geom = Idle /\ overture_data = Idle /\ before = Idle
    /\ merges = 0
    /\ data = Idle /\ nodes = Idle /\ ways = Idle
    /\ processed_relations = Idle /\ covers = Idle
    /\ progress_store = <<>> /\ tasks = <<>> /\ call = Idle

\* the iteration reaches `return buildings`: a response, status 200, a body
\* that response.json() parses
ReachesReturn(o) == Responds(o) /\ StatusIsOk(StatusOf(o)) /\ ~JsonRaises(o)

\* an iteration that returns the buildings process_data makes of the body
ServerAnswers ==
    /\ pc = "fetch"
    /\ server <= NumServers
    /\ ReachesReturn(outcomes[server])
    /\ contacted' = Append(contacted, server)
    /\ data' = Payload(server, outcomes[server])
    /\ buildings' = ProcessData(data', <<>>)
    /\ result' = [raised |-> FALSE, value |-> buildings']
    /\ pc' = "returned"
    /\ UNCHANGED <<element, geom, overture_data, before, merges, nodes, ways,
                   processed_relations, covers, outcomes, server>>
    /\ UNCHANGED progVars

\* an iteration that continues: another status, a timeout or an exception
ServerFails ==
    /\ pc = "fetch"
    /\ server <= NumServers
    /\ ~ReachesReturn(outcomes[server])
    /\ contacted' = Append(contacted, server)
    /\ server' = server + 1
    /\ UNCHANGED <<element, geom, buildings, overture_data, before, result, merges,
                   data, pc, nodes, ways, processed_relations, covers, outcomes>>
    /\ UNCHANGED progVars

\* the end of the loop: every server failed
AllServersFailed ==
    /\ pc = "fetch"
    /\ server > NumServers
    /\ result' = [raised |-> FALSE, value |-> <<>>]
    /\ pc' = "returned"
    /\ UNCHANGED <<element, geom, buildings, overture_data, before, merges,
                   data, nodes, ways, processed_relations, covers>>
    /\ UNCHANGED fetchVars
    /\ UNCHANGED progVars

NextFetch == ServerAnswers \/ ServerFails \/ AllServersFailed

SpecFetch == InitFetch /\ [][NextFetch]_vars

(***************************************************************************)
(* Claims about fetch_buildings (checked under SpecFetch)                  *)
(***************************************************************************)
\* server k answers 200 with a body that can be read
Answers(k) == outcomes[k] \in {"ok", "empty"}

\* the servers up to and including the first that answers, or all of them
ServersToContact ==
    IF \E k \in 1..NumServers : Answers(k)
    THEN 1..(CHOOSE k \in 1..NumServers :
                Answers(k) /\ \A j \in 1..(k - 1) : ~Answers(j))
    ELSE 1..NumServers

\* C17: fetch_buildings never raises; the servers are contacted in the order of
\* the list, each at most once, a failing one being followed by the next; the
\* buildings of the first server answering 200 are returned and no later server
\* is contacted; the empty list is returned when every server fails.
C17_Failover ==
    /\ \A n \in 1..Len(contacted) : contacted[n] = n
    /\ Len(contacted) <= NumServers
    /\ pc = "returned" =>
          /\ ~result.raised
          /\ {contacted[n] : n \in 1..Len(contacted)} = ServersToContact
          /\ IF \E k \in 1..NumServers : Answers(k)
             THEN LET k == Len(contacted)
                  IN  /\ Answers(k)
                      /\ outcomes[k] = "ok" =>
                            /\ Len(result.value) = 1
                            /\ result.value[1].properties.osm_id = OsmId("way", k)
                      /\ outcomes[k] = "empty" => result.value = <<>>
             ELSE result.value = <<>>

\* a rate limit, a timeout and an unreadable body, then the fourth server's
\* buildings, the fifth never contacted though it would have answered
C17_Witness ==
    /\ pc = "returned"
    /\ outcomes[1] = "ratelimit" /\ outcomes[2] = "timeout"
    /\ outcomes[3] = "badjson" /\ outcomes[4] = "ok" /\ outcomes[5] = "ok"
    /\ contacted = <<1, 2, 3, 4>>
    /\ Len(result.value) = 1
    /\ result.value[1].properties.osm_id = OsmId("way", 4)

(***************************************************************************)
(* main.py: the progress store and the background task.  An entry of       *)
(* progress_store is [status, progress, current_step, data]; its message   *)
(* and start_time are written along and read by nothing here.  A task id   *)
(* is a uuid4: the ids are taken to be fresh, and are numbered in the      *)
(* order of their requests.                                                *)
(***************************************************************************)
\* clean_data_for_json: dicts and lists are rebuilt around their cleaned
\* items; a float that is nan or inf becomes None and an object of another
\* type its str().  The result of merge_all_data holds only dicts, lists,
\* finite floats, ints, strs, bools and None, which are kept
CleanDataForJson(d) ==
    [type |-> d.type,
     features |-> [i \in 1..Len(d.features) |-> d.features[i]],
     metadata |-> d.metadata]

\* a variant of the substring test that finds nothing
NeverContainsError(step) == FALSE

\* `"Error" in step`: of the step strings of process_polygon_data only
\* "Error" holds it
ContainsError(step) == step = "Error"

\* a variant that marks a task completed before its last update
UpdateProgressEarlyCompleted(store, task_id, progress, step, d) ==
    IF task_id \in DOMAIN store
    THEN [store EXCEPT ![task_id] =
             [status |-> IF progress >= 95 THEN "completed"
                         ELSE IF progress = 0 /\ ContainsError(step) THEN "error"
                         ELSE store[task_id].status,
              progress |-> progress,
              current_step |-> step,
              data |-> IF d # PyNone THEN CleanDataForJson(d) ELSE d]]
    ELSE store

\* update_progress
UpdateProgress(store, task_id, progress, step, d) ==
    IF task_id \in DOMAIN store
    THEN [store EXCEPT ![task_id] =
             [status |-> IF progress = 100 THEN "completed"
                         ELSE IF progress = 0 /\ ContainsError(step) THEN "error"
                         ELSE store[task_id].status,
              progress |-> progress,
              current_step |-> step,
              data |-> IF d # PyNone THEN CleanDataForJson(d) ELSE d]]
    ELSE store

\* calculate_bounds raises IndexError on a coordinate of fewer than 2 numbers
BoundsRaise(coordinates) ==
    \E i \in 1..Len(coordinates) : Len(coordinates[i]) < 2

\* calculate_bounds
CalculateBounds(coordinates) ==
    LET lngs == {coordinates[i][1] : i \in 1..Len(coordinates)}
        lats == {coordinates[i][2] : i \in 1..Len(coordinates)}
        least(S) == CHOOSE x \in S : \A y \in S : x <= y
        most(S) == CHOOSE x \in S : \A y \in S : x >= y
    IN  [west |-> least(lngs), east |-> most(lngs),
         south |-> least(lats), north |-> most(lats)]

\* the filter loop of process_polygon_data: a building stays when the drawn
\* polygon contains its centroid; one whose geometry raises is left out
FilterBuildings(fetched) ==
    SeqConcat([i \in 1..Len(fetched) |->
        IF fetched[i].centroid = "inside" THEN <<fetched[i].feature>> ELSE <<>>])

\* a variant of the progress values with two steps exchanged
ProgressAtExchanged(step) ==
    CASE step = "Calculating bounds" -> 5
      [] step = "Fetching OSM data" -> 10
      [] step \in {"OSM data received", "No OSM data"} -> 25
      [] step = "Fetching Overture data" -> 45
      [] step = "Overture data received" -> 35
      [] step = "Fetching ISTAT data" -> 55
      [] step = "ISTAT data received" -> 65
      [] step = "Fetching APE data" -> 75
      [] step = "APE data received" -> 80
      [] step = "Merging data" -> 85
      [] step = "Data merged" -> 95
      [] step = "Completed" -> 100
      [] step = "Error" -> 0

\* the progress value process_polygon_data passes with each step
ProgressAt(step) ==
    CASE step = "Calculating bounds" -> 5
      [] step = "Fetching OSM data" -> 10
      [] step \in {"OSM data received", "No OSM data"} -> 25
      [] step = "Fetching Overture data" -> 35
      [] step = "Overture data received" -> 45
      [] step = "Fetching ISTAT data" -> 55
      [] step = "ISTAT data received" -> 65
      [] step = "Fetching APE data" -> 75
      [] step = "APE data received" -> 80
      [] step = "Merging data" -> 85
      [] step = "Data merged" -> 95
      [] step = "Completed" -> 100
      [] step = "Error" -> 0

(***************************************************************************)
(* Requests, and what the OSM fetch gives                                  *)
(***************************************************************************)
\* at most this many requests are accepted
MaxTasks == 2

TaskIds == 1..MaxTasks

\* request.coordinates: a triangle, a triangle with a coordinate of one
\* number, two points
PolygonRequests ==
    {<<<<0, 0>>, <<4, 0>>, <<0, 4>>>>,
     <<<<0, 0>>, <<4>>, <<0, 4>>>>,
     <<<<0, 0>>, <<4, 0>>>>}

\* a building as fetch_buildings returns it, with GEOS's answer for its
\* centroid and the drawn polygon
FetchedBuildings(centroids) ==
    [i \in 1..Len(centroids) |->
        [feature |-> CreateBuildingFeature([type |-> "way", id |-> i, tags |-> BuildingYes],
                                           SquareGeom(500 * SCALE)),
         centroid |-> centroids[i]]]

\* what fetch_buildings returns: [] when every server failed, else the
\* buildings process_data made of the body
FetchResults ==
    {[all_failed |-> r[1], buildings |-> FetchedBuildings(r[2])] :
        r \in {<<TRUE, <<>>>>, <<FALSE, <<"outside">>>>,
               <<FALSE, <<"raises", "inside">>>>}}

(***************************************************************************)
(* process_polygon and process_polygon_data as a state machine.  The       *)
(* locals of a task are [pc, coordinates, bounds, fetched, osm_buildings,  *)
(* enriched_buildings]; several tasks interleave on the event loop.        *)
(***************************************************************************)
InitProgress ==
    /\ progress_store = <<>>
    /\ tasks = <<>>
    /\ call = Idle
    /\ buildings = <<>> /\ result = Idle /\ merges = 0
    /\ element = Idle /\ geom = Idle /\ overture_data = Idle /\ before = Idle
    /\ data = Idle /\ pc = Idle /\ nodes = Idle /\ ways = Idle
    /\ processed_relations = Idle /\ covers = Idle
    /\ outcomes = Idle /\ server = 0 /\ contacted = <<>>

\* the variables of the other specifications
otherVars == <<element, geom, buildings, overture_data, before, result, merges,
               data, pc, nodes, ways, processed_relations, covers,
               outcomes, server, contacted>>

\* process_polygon: a request of fewer than 3 coordinates is refused with 400
ProcessPolygon ==
    /\ Cardinality(DOMAIN progress_store) < MaxTasks
    /\ \E coordinates \in PolygonRequests :
          LET task_id == Cardinality(DOMAIN progress_store) + 1
          IN  /\ Len(coordinates) >= 3
              /\ progress_store' = progress_store @@
                    (task_id :> [status |-> "processing", progress |-> 0,
                                 current_step |-> "Initializing...", data |-> PyNone])
              /\ tasks' = tasks @@
                    (task_id :> [pc |-> "start", coordinates |-> coordinates,
                                 bounds |-> PyNone, fetched |-> PyNone,
                                 osm_buildings |-> <<>>,
                                 enriched_buildings |-> PyNone])
    /\ call' = PyNone
    /\ UNCHANGED otherVars

\* one update_progress call of task t, which then goes on to position next
Update(t, step, d, next) ==
    /\ progress_store' = UpdateProgress(progress_store, t, ProgressAt(step), step, d)
    /\ call' = [task_id |-> t, progress |-> ProgressAt(step), step |-> step]
    /\ tasks' = [tasks EXCEPT ![t].pc = next]
    /\ UNCHANGED otherVars

At(t, where) == t \in DOMAIN tasks /\ tasks[t].pc = where

\* line 102
CalculatingBounds(t) ==
    At(t, "start") /\ Update(t, "Calculating bounds", PyNone, "bounds")

\* lines 103-106: calculate_bounds and Polygon(coordinates), or what they raise
BoundsDone(t) ==
    /\ At(t, "bounds")
    /\ tasks' = [tasks EXCEPT
                    ![t].pc = IF BoundsRaise(tasks[t].coordinates)
                              THEN "except" ELSE "announce_osm",
                    ![t].bounds = IF BoundsRaise(tasks[t].coordinates)
                                  THEN PyNone
                                  ELSE CalculateBounds(tasks[t].coordinates)]
    /\ call' = PyNone
    /\ UNCHANGED progress_store
    /\ UNCHANGED otherVars

\* line 109
FetchingOSM(t) ==
    At(t, "announce_osm") /\ Update(t, "Fetching OSM data", PyNone, "fetch")

\* lines 110-142: fetch_buildings returns, and the filter loop
FetchBuildings(t) ==
    /\ At(t, "fetch")
    /\ \E fetched \in FetchResults :
          tasks' = [tasks EXCEPT ![t].pc = "osm_received",
                                 ![t].fetched = fetched,
                                 ![t].osm_buildings = FilterBuildings(fetched.buildings)]
    /\ call' = PyNone
    /\ UNCHANGED progress_store
    /\ UNCHANGED otherVars

\* lines 145-148
OSMReceived(t) ==
    /\ At(t, "osm_received")
    /\ Update(t, IF Len(tasks[t].osm_buildings) > 0
                 THEN "OSM data received" ELSE "No OSM data",
              PyNone, "announce_overture")

\* line 151
FetchingOverture(t) ==
    At(t, "announce_overture") /\ Update(t, "Fetching Overture data", PyNone, "overture")

\* lines 152-153: fetch_building_data returns []
OvertureReceived(t) ==
    At(t, "overture") /\ Update(t, "Overture data received", PyNone, "announce_istat")

\* line 156
FetchingISTAT(t) ==
    At(t, "announce_istat") /\ Update(t, "Fetching ISTAT data", PyNone, "istat")

\* lines 157-158: fetch_census_data returns []
ISTATReceived(t) ==
    At(t, "istat") /\ Update(t, "ISTAT data received", PyNone, "announce_ape")

\* line 161
FetchingAPE(t) ==
    At(t, "announce_ape") /\ Update(t, "Fetching APE data", PyNone, "ape")

\* lines 162-163: fetch_energy_data returns []
APEReceived(t) ==
    At(t, "ape") /\ Update(t, "APE data received", PyNone, "announce_merge")

\* line 166
Merging(t) ==
    At(t, "announce_merge") /\ Update(t, "Merging data", PyNone, "merge")

\* lines 167-168
DataMerged(t) ==
    /\ At(t, "merge")
    /\ progress_store' = UpdateProgress(progress_store, t, ProgressAt("Data merged"),
                                        "Data merged", PyNone)
    /\ call' = [task_id |-> t, progress |-> ProgressAt("Data merged"),
                step |-> "Data merged"]
    /\ tasks' = [tasks EXCEPT
                    ![t].pc = "finalize",
                    ![t].enriched_buildings =
                        MergeAllData(tasks[t].osm_buildings, <<>>, <<>>, <<>>)]
    /\ UNCHANGED otherVars

\* line 171
Completed(t) ==
    At(t, "finalize") /\ Update(t, "Completed", tasks[t].enriched_buildings, "end")

\* lines 173-175: the handler of the task's try
HandleError(t) ==
    At(t, "except") /\ Update(t, "Error", PyNone, "end")

\* the steps of task t
TaskStep(t) ==
    \/ CalculatingBounds(t) \/ BoundsDone(t) \/ FetchingOSM(t) \/ FetchBuildings(t)
    \/ OSMReceived(t) \/ FetchingOverture(t) \/ OvertureReceived(t)
    \/ FetchingISTAT(t) \/ ISTATReceived(t) \/ FetchingAPE(t) \/ APEReceived(t)
    \/ Merging(t) \/ DataMerged(t) \/ Completed(t) \/ HandleError(t)

\* update_progress called with an id that has no entry: no caller in the
\* repository does, the function admits it
UpdateUnknown ==
    /\ Cardinality(DOMAIN progress_store) < MaxTasks
    /\ \E step \in {"Completed", "Error"} :
          LET task_id == Cardinality(DOMAIN progress_store) + 1
          IN  /\ progress_store' = UpdateProgress(progress_store, task_id,
                                                  ProgressAt(step), step, PyNone)
              /\ call' = [task_id |-> task_id, progress |-> ProgressAt(step),
                          step |-> step]
    /\ UNCHANGED tasks
    /\ UNCHANGED otherVars

NextProgress ==
    \/ ProcessPolygon
    \/ \E t \in TaskIds : TaskStep(t)
    \/ UpdateUnknown

SpecProgress == InitProgress /\ [][NextProgress]_vars

\* while a task can go on the event loop runs one, and each awaited fetch
\* returns or fails
SpecProgressLive ==
    /\ InitProgress
    /\ [][NextProgress]_vars
    /\ WF_vars(\E t \in TaskIds : TaskStep(t))

(***************************************************************************)
(* Claims about the progress store (checked under SpecProgress)            *)
(***************************************************************************)
\* what holds of every entry of the store
EntryConsistent(e) ==
    /\ e.status \in {"processing", "completed", "error"}
    /\ e.status = "completed" => e.progress = 100
    /\ e.status = "error" => e.progress = 0
    /\ e.data # PyNone => e.status = "completed"

\* a step that calls update_progress changes no entry but that of the id it
\* was called with, and nothing when that id has no entry
UpdateTouchesOwnEntry ==
    call' # PyNone =>
        /\ DOMAIN progress_store' = DOMAIN progress_store
        /\ \A u \in DOMAIN progress_store :
              u # call'.task_id => progress_store'[u] = progress_store[u]
        /\ call'.task_id \notin DOMAIN progress_store
              => progress_store' = progress_store

\* C22: in every reachable state every entry has a status among processing,
\* completed and error, is completed only with progress 100, is error only with
\* progress 0 and holds data only when completed; an update for one task id
\* changes no other task's entry, and an update for an id without an entry
\* leaves the store as it was.
C22_StoreInvariant ==
    /\ [](\A t \in DOMAIN progress_store : EntryConsistent(progress_store[t]))
    /\ [][UpdateTouchesOwnEntry]_vars

\* task 1 is completed and holds its data, and an update with progress 100 for
\* id 2, which has no entry, has just left the store with its one entry
C22_Witness ==
    /\ DOMAIN progress_store = {1}
    /\ progress_store[1].status = "completed"
    /\ progress_store[1].progress = 100
    /\ progress_store[1].data # PyNone
    /\ call # PyNone
    /\ call.task_id = 2
    /\ call.progress = 100

\* the steps in their fixed order
StepOrder ==
    <<{"Initializing..."}, {"Calculating bounds"}, {"Fetching OSM data"},
      {"OSM data received", "No OSM data"}, {"Fetching Overture data"},
      {"Overture data received"}, {"Fetching ISTAT data"}, {"ISTAT data received"},
      {"Fetching APE data"}, {"APE data received"}, {"Merging data"},
      {"Data merged"}, {"Completed"}>>

StepIndex(step) == CHOOSE n \in 1..Len(StepOrder) : step \in StepOrder[n]

\* what one step may do to the entry of a task
EntryMoves(old, new) ==
    \/ new = old
    \/ /\ old.status = "processing"
       /\ new.status = "error"
       /\ new.progress = 0
       /\ new.current_step = "Error"
    \/ /\ old.status = "processing"
       /\ new.current_step # "Error"
       /\ new.progress >= old.progress
       /\ StepIndex(new.current_step) > StepIndex(old.current_step)

\* C23: the progress values recorded for a task start at 0 and do not decrease
\* along the step order bounds, OSM, Overture, ISTAT, APE, merge, completed,
\* but for the reset to 0 of the error update; once the status is completed or
\* error no update changes the status, the progress or the data.
C23_ProgressOrder ==
    [][/\ \A t \in DOMAIN progress_store :
             /\ t \in DOMAIN progress_store'
             /\ EntryMoves(progress_store[t], progress_store'[t])
       /\ \A t \in DOMAIN progress_store' \ DOMAIN progress_store :
             /\ progress_store'[t].progress = 0
             /\ progress_store'[t].status = "processing"]_vars

\* task 1 ended in error, reset to 0, and task 2 went through every step to
\* completed; the latest update is the last of task 2, made while task 1 was
\* already in error
C23_Witness ==
    /\ DOMAIN progress_store = {1, 2}
    /\ progress_store[1].status = "error"
    /\ progress_store[1].progress = 0
    /\ progress_store[2].status = "completed"
    /\ progress_store[2].progress = 100
    /\ call # PyNone
    /\ call.task_id = 2

\* the task has ended as the code says it ends
EndedRight(t) ==
    LET e == progress_store[t]
    IN  IF BoundsRaise(tasks[t].coordinates)
        THEN e.status = "error"
        ELSE /\ e.status = "completed"
             /\ e.progress = 100
             /\ e.data # PyNone
             /\ (\/ tasks[t].fetched.all_failed
                 \/ \A i \in 1..Len(tasks[t].fetched.buildings) :
                       tasks[t].fetched.buildings[i].centroid # "inside")
                   => e.data.features = <<>>

\* C24 (under SpecProgressLive): every accepted task leaves status processing,
\* so from some point on no accepted task is in processing (requests are
\* finitely many and an ended task stays ended); a task ends completed with
\* progress 100 and its data, or in error when a step raised; with every OSM
\* server failed or no building inside the drawn polygon it ends completed
\* with an empty feature list.
C24_TaskEnds ==
    /\ <>[](\A t \in DOMAIN progress_store : progress_store[t].status # "processing")
    /\ [](\A t \in DOMAIN tasks :
            /\ progress_store[t].status # "processing" <=> tasks[t].pc = "end"
            /\ tasks[t].pc = "end" => EndedRight(t))

\* a task whose OSM fetch found every server failed is completed with an empty
\* feature list, and another that raised is in error
C24_Witness ==
    /\ DOMAIN tasks = {1, 2}
    /\ tasks[1].pc = "end"
    /\ tasks[1].fetched # PyNone
    /\ tasks[1].fetched.all_failed
    /\ progress_store[1].status = "completed"
    /\ progress_store[1].data.features = <<>>
    /\ tasks[2].pc = "end"
    /\ progress_store[2].status = "error"

=============================================================================
